---- MODULE Spec2Model ----
(***************************************************************************)
(* log2json: the format recognizers, the Registry that orders, selects and *)
(* caches them, and the runPipeline loop that drives reader, Registry and  *)
(* emitter.                                                                *)
(*                                                                         *)
(* Text is modelled as a sequence of one-character strings, so that the    *)
(* recognizers work on the characters of a line as the Go code does.       *)
(* Go's regexp package is modelled by a backtracking matcher over the      *)
(* syntax tree of each pattern (leftmost match, alternatives and greedy    *)
(* repetitions tried in the order Go prefers them).                        *)
(***************************************************************************)
EXTENDS Integers, Sequences, FiniteSets, TLC

(***************************************************************************)
(* Characters and character classes                                        *)
(***************************************************************************)
Digit == {"0", "1", "2", "3", "4", "5", "6", "7", "8", "9"}

LowerLetter ==
    {"a", "b", "c", "d", "e", "f", "g", "h", "i", "j", "k", "l", "m",
     "n", "o", "p", "q", "r", "s", "t", "u", "v", "w", "x", "y", "z"}

UpperLetter ==
    {"A", "B", "C", "D", "E", "F", "G", "H", "I", "J", "K", "L", "M",
     "N", "O", "P", "Q", "R", "S", "T", "U", "V", "W", "X", "Y", "Z"}

\* \w of Go's regexp: [0-9A-Za-z_]
WordChar == Digit \cup LowerLetter \cup UpperLetter \cup {"_"}

\* \s of Go's regexp: [\t\n\f\r ]
SpaceChar == {" ", "\t", "\n", "\f", "\r"}

\* unicode.IsSpace restricted to the characters of the model
\* (strings.TrimSpace trims these)
IsSpace(c) == c \in SpaceChar

\* strings.TrimSpace
RECURSIVE TrimLeft(_)
TrimLeft(s) ==
    IF s = <<>> THEN <<>>
    ELSE IF IsSpace(Head(s)) THEN TrimLeft(Tail(s)) ELSE s

RECURSIVE TrimRight(_)
TrimRight(s) ==
    IF s = <<>> THEN <<>>
    ELSE IF IsSpace(s[Len(s)]) THEN TrimRight(SubSeq(s, 1, Len(s) - 1)) ELSE s

TrimSpace(s) == TrimRight(TrimLeft(s))

\* strings.ToLower / strings.ToUpper on one character
LowerOf ==
    [c \in UpperLetter |->
        CASE c = "A" -> "a" [] c = "B" -> "b" [] c = "C" -> "c" [] c = "D" -> "d"
          [] c = "E" -> "e" [] c = "F" -> "f" [] c = "G" -> "g" [] c = "H" -> "h"
          [] c = "I" -> "i" [] c = "J" -> "j" [] c = "K" -> "k" [] c = "L" -> "l"
          [] c = "M" -> "m" [] c = "N" -> "n" [] c = "O" -> "o" [] c = "P" -> "p"
          [] c = "Q" -> "q" [] c = "R" -> "r" [] c = "S" -> "s" [] c = "T" -> "t"
          [] c = "U" -> "u" [] c = "V" -> "v" [] c = "W" -> "w" [] c = "X" -> "x"
          [] c = "Y" -> "y" [] c = "Z" -> "z"]

ToLowerChar(c) == IF c \in UpperLetter THEN LowerOf[c] ELSE c

ToUpperChar(c) ==
    IF c \in LowerLetter THEN CHOOSE u \in UpperLetter : LowerOf[u] = c ELSE c

ToLower(s) == [i \in 1..Len(s) |-> ToLowerChar(s[i])]

ToUpper(s) == [i \in 1..Len(s) |-> ToUpperChar(s[i])]

(***************************************************************************)
(* Go regexp, as a backtracking matcher.                                   *)
(* A pattern is a tree:                                                    *)
(*   <<"cls", S>>       one character of S                                 *)
(*   <<"ncls", S>>      one character not in S                             *)
(*   <<"bol">>, <<"eol">>   ^ and $ (no multi-line flag: text boundaries)  *)
(*   <<"cat", <<r1, .., rn>> >>   r1 r2 .. rn                              *)
(*   <<"alt", <<r1, .., rn>> >>   r1|r2|..|rn, r1 preferred                *)
(*   <<"rep", r, min, max>>   greedy r{min,max}; max = -1 is unbounded     *)
(*   <<"grp", i, r>>    capturing group number i                           *)
(* A match result is [pos |-> characters consumed, caps |-> group texts];  *)
(* the matcher returns the results in Go's order of preference.            *)
(***************************************************************************)
ReChar(c) == <<"cls", {c}>>
ReAny == <<"ncls", {"\n"}>>                  \* .
ReDigit == <<"cls", Digit>>                  \* \d
ReWord == <<"cls", WordChar>>                \* \w
ReSpace == <<"cls", SpaceChar>>              \* \s
ReNonSpace == <<"ncls", SpaceChar>>          \* \S
ReStar(r) == <<"rep", r, 0, -1>>             \* r*
RePlus(r) == <<"rep", r, 1, -1>>             \* r+
ReOpt(r) == <<"rep", r, 0, 1>>               \* r?
ReTimes(r, n) == <<"rep", r, n, n>>          \* r{n}
ReLit(s) == <<"cat", [i \in 1..Len(s) |-> ReChar(s[i])]>>

RECURSIVE ReMatch(_, _, _, _), ReEach(_, _, _, _, _), ReCat(_, _, _, _),
          ReAlt(_, _, _, _, _), ReRep(_, _, _, _, _, _), ReRepEach(_, _, _, _, _, _)

ReMatch(re, s, i, caps) ==
    CASE re[1] = "cls" ->
            IF i < Len(s) /\ s[i + 1] \in re[2]
            THEN <<[pos |-> i + 1, caps |-> caps]>> ELSE <<>>
      [] re[1] = "ncls" ->
            IF i < Len(s) /\ s[i + 1] \notin re[2]
            THEN <<[pos |-> i + 1, caps |-> caps]>> ELSE <<>>
      [] re[1] = "bol" -> IF i = 0 THEN <<[pos |-> i, caps |-> caps]>> ELSE <<>>
      [] re[1] = "eol" -> IF i = Len(s) THEN <<[pos |-> i, caps |-> caps]>> ELSE <<>>
      [] re[1] = "cat" -> ReCat(re[2], 1, s, <<[pos |-> i, caps |-> caps]>>)
      [] re[1] = "alt" -> ReAlt(re[2], 1, s, i, caps)
      [] re[1] = "rep" -> ReRep(re[2], re[3], re[4], s, i, caps)
      [] re[1] = "grp" ->
            LET rs == ReMatch(re[3], s, i, caps)
            IN  [k \in 1..Len(rs) |->
                    [pos |-> rs[k].pos,
                     caps |-> [rs[k].caps EXCEPT ![re[2]] = SubSeq(s, i + 1, rs[k].pos)]]]

\* re continued from each of the results rs[lo..hi], in order
ReEach(re, s, rs, lo, hi) ==
    IF lo > hi THEN <<>>
    ELSE IF lo = hi THEN ReMatch(re, s, rs[lo].pos, rs[lo].caps)
    ELSE LET mid == (lo + hi) \div 2
         IN  ReEach(re, s, rs, lo, mid) \o ReEach(re, s, rs, mid + 1, hi)

ReCat(parts, k, s, rs) ==
    IF k > Len(parts) \/ rs = <<>> THEN rs
    ELSE ReCat(parts, k + 1, s, ReEach(parts[k], s, rs, 1, Len(rs)))

ReAlt(parts, k, s, i, caps) ==
    IF k > Len(parts) THEN <<>>
    ELSE ReMatch(parts[k], s, i, caps) \o ReAlt(parts, k + 1, s, i, caps)

\* greedy: one more iteration is preferred to stopping.  A repeated character
\* class matches the run of such characters at i, the longest first.
ReRep(re, min, max, s, i, caps) ==
    IF re[1] \in {"cls", "ncls"}
    THEN LET In(j) == IF re[1] = "cls" THEN s[j] \in re[2] ELSE s[j] \notin re[2]
             limit == IF max < 0 \/ max > Len(s) - i THEN Len(s) - i ELSE max
             run == CHOOSE n \in 0..limit :
                        /\ \A j \in 1..n : In(i + j)
                        /\ n = limit \/ ~In(i + n + 1)
         IN  IF run < min THEN <<>>
             ELSE [k \in 1..(run - min + 1) |-> [pos |-> i + run - k + 1, caps |-> caps]]
    ELSE LET more == IF max = 0 THEN <<>>
                     ELSE ReRepEach(re, min, max, s, ReMatch(re, s, i, caps), 1)
             stop == IF min <= 0 THEN <<[pos |-> i, caps |-> caps]>> ELSE <<>>
         IN  more \o stop

ReRepEach(re, min, max, s, rs, k) ==
    IF k > Len(rs) THEN <<>>
    ELSE ReRep(re, IF min > 0 THEN min - 1 ELSE 0, IF max > 0 THEN max - 1 ELSE max,
               s, rs[k].pos, rs[k].caps)
         \o ReRepEach(re, min, max, s, rs, k + 1)

\* A compiled pattern: its tree and SubexpNames()[1..] ("" for an unnamed group)
NoCaps(pat) == [g \in 1..Len(pat.names) |-> <<>>]

\* The leftmost match starting at or after character position from (0-based):
\* [found, start, end, caps]
\* at[f] is the matches that start at position f
ReLeftmost(pat, at) ==
    LET starts == {f \in DOMAIN at : at[f] # <<>>}
        start == CHOOSE f \in starts : \A g \in starts : f <= g
    IN  IF starts = {}
        THEN [found |-> FALSE, start |-> 0, end |-> 0, caps |-> NoCaps(pat)]
        ELSE [found |-> TRUE, start |-> start,
              end |-> at[start][1].pos, caps |-> at[start][1].caps]

ReFindFrom(pat, s, from) ==
    ReLeftmost(pat, [f \in from..Len(s) |-> ReMatch(pat.tree, s, f, NoCaps(pat))])

\* (*Regexp).MatchString
MatchString(pat, s) == ReFindFrom(pat, s, 0).found

\* (*Regexp).FindStringSubmatch: the match (nil when not found) and the groups
FindStringSubmatch(pat, s) == ReFindFrom(pat, s, 0)

\* (*Regexp).FindAllStringSubmatch(s, -1): successive non-overlapping matches
\* (none of the patterns that use it can match the empty string)
RECURSIVE FindAllFrom(_, _, _), FindAllNext(_, _, _)
FindAllNext(pat, s, m) ==
    IF ~m.found THEN <<>>
    ELSE <<m>> \o FindAllFrom(pat, s, IF m.end > m.start THEN m.end ELSE m.end + 1)

FindAllFrom(pat, s, from) == FindAllNext(pat, s, ReFindFrom(pat, s, from))

FindAllStringSubmatch(pat, s) == FindAllFrom(pat, s, 0)

(***************************************************************************)
(* Field names (keys of Entry.Fields), as text                             *)
(***************************************************************************)
K_timestamp == <<"t", "i", "m", "e", "s", "t", "a", "m", "p">>
K_host == <<"h", "o", "s", "t">>
K_program == <<"p", "r", "o", "g", "r", "a", "m">>
K_pid == <<"p", "i", "d">>
K_message == <<"m", "e", "s", "s", "a", "g", "e">>
K_raw == <<"r", "a", "w">>
K_ip == <<"i", "p">>
K_ident == <<"i", "d", "e", "n", "t">>
K_user == <<"u", "s", "e", "r">>
K_method == <<"m", "e", "t", "h", "o", "d">>
K_path == <<"p", "a", "t", "h">>
K_protocol == <<"p", "r", "o", "t", "o", "c", "o", "l">>
K_status == <<"s", "t", "a", "t", "u", "s">>
K_size == <<"s", "i", "z", "e">>
K_referer == <<"r", "e", "f", "e", "r", "e", "r">>
K_useragent == <<"u", "s", "e", "r", "a", "g", "e", "n", "t">>
K_level == <<"l", "e", "v", "e", "l">>
K_parseError == <<"_", "p", "a", "r", "s", "e", "E", "r", "r", "o", "r">>

(***************************************************************************)
(* The patterns of the recognizers                                         *)
(***************************************************************************)
\* \d{2}:\d{2}:\d{2}
ReClock ==
    <<"cat", <<ReTimes(ReDigit, 2), ReChar(":"), ReTimes(ReDigit, 2), ReChar(":"),
               ReTimes(ReDigit, 2)>> >>

\* \d{4}-\d{2}-\d{2}
ReDate ==
    <<"cat", <<ReTimes(ReDigit, 4), ReChar("-"), ReTimes(ReDigit, 2), ReChar("-"),
               ReTimes(ReDigit, 2)>> >>

\* (?:\.\d+)?
ReFraction == ReOpt(<<"cat", <<ReChar("."), RePlus(ReDigit)>> >>)

\* syslog: ^(?P<timestamp>(?:\w{3}\s+\d{1,2}\s+\d{2}:\d{2}:\d{2})|
\*           (?:\d{4}-\d{2}-\d{2}T\d{2}:\d{2}:\d{2}(?:\.\d+)?(?:Z|[+-]\d{2}:\d{2})?))
\*         \s+(?P<host>\S+)\s+(?P<program>[^\s\[:]+)(?:\[(?P<pid>\d+)\])?:\s*(?P<message>.*)$
SyslogPattern ==
    [names |-> <<K_timestamp, K_host, K_program, K_pid, K_message>>,
     tree |->
       <<"cat", <<
          <<"bol">>,
          <<"grp", 1, <<"alt", <<
              <<"cat", <<ReTimes(ReWord, 3), RePlus(ReSpace), <<"rep", ReDigit, 1, 2>>,
                         RePlus(ReSpace), ReClock>> >>,
              <<"cat", <<ReDate, ReChar("T"), ReClock, ReFraction,
                         ReOpt(<<"alt", <<
                             ReChar("Z"),
                             <<"cat", <<<<"cls", {"+", "-"}>>, ReTimes(ReDigit, 2),
                                        ReChar(":"), ReTimes(ReDigit, 2)>> >> >> >>)>> >> >> >> >>,
          RePlus(ReSpace),
          <<"grp", 2, RePlus(ReNonSpace)>>,
          RePlus(ReSpace),
          <<"grp", 3, RePlus(<<"ncls", SpaceChar \cup {"[", ":"}>>)>>,
          ReOpt(<<"cat", <<ReChar("["), <<"grp", 4, RePlus(ReDigit)>>, ReChar("]")>> >>),
          ReChar(":"),
          ReStar(ReSpace),
          <<"grp", 5, ReStar(ReAny)>>,
          <<"eol">> >> >>]

\* apache: ^(?P<ip>\S+)\s+(?P<ident>\S+)\s+(?P<user>\S+)\s+\[(?P<timestamp>[^\]]+)\]\s+
\*         "(?P<method>\S+)\s+(?P<path>\S+)\s+(?P<protocol>[^"]+)"\s+
\*         (?P<status>\d+)\s+(?P<size>\S+)
\*         (?:\s+"(?P<referer>[^"]*)"\s+"(?P<useragent>[^"]*)")?
ApachePattern ==
    [names |-> <<K_ip, K_ident, K_user, K_timestamp, K_method, K_path, K_protocol,
                 K_status, K_size, K_referer, K_useragent>>,
     tree |->
       <<"cat", <<
          <<"bol">>,
          <<"grp", 1, RePlus(ReNonSpace)>>, RePlus(ReSpace),
          <<"grp", 2, RePlus(ReNonSpace)>>, RePlus(ReSpace),
          <<"grp", 3, RePlus(ReNonSpace)>>, RePlus(ReSpace),
          ReChar("["), <<"grp", 4, RePlus(<<"ncls", {"]"}>>)>>, ReChar("]"), RePlus(ReSpace),
          ReChar("\""),
          <<"grp", 5, RePlus(ReNonSpace)>>, RePlus(ReSpace),
          <<"grp", 6, RePlus(ReNonSpace)>>, RePlus(ReSpace),
          <<"grp", 7, RePlus(<<"ncls", {"\""}>>)>>,
          ReChar("\""), RePlus(ReSpace),
          <<"grp", 8, RePlus(ReDigit)>>, RePlus(ReSpace),
          <<"grp", 9, RePlus(ReNonSpace)>>,
          ReOpt(<<"cat", <<
              RePlus(ReSpace), ReChar("\""), <<"grp", 10, ReStar(<<"ncls", {"\""}>>)>>,
              ReChar("\""),
              RePlus(ReSpace), ReChar("\""), <<"grp", 11, ReStar(<<"ncls", {"\""}>>)>>,
              ReChar("\"")>> >>) >> >>]

\* key=value: (\w+)=(?:"([^"]*)"|'([^']*)'|(\S+))
KeyValuePattern ==
    [names |-> <<<<>>, <<>>, <<>>, <<>>>>,
     tree |->
       <<"cat", <<
          <<"grp", 1, RePlus(ReWord)>>,
          ReChar("="),
          <<"alt", <<
              <<"cat", <<ReChar("\""), <<"grp", 2, ReStar(<<"ncls", {"\""}>>)>>,
                         ReChar("\"")>> >>,
              <<"cat", <<ReChar("'"), <<"grp", 3, ReStar(<<"ncls", {"'"}>>)>>,
                         ReChar("'")>> >>,
              <<"grp", 4, RePlus(ReNonSpace)>> >> >> >> >>]

\* DEBUG|INFO|WARN(?:ING)?|ERROR|FATAL|TRACE
ReLevel ==
    <<"alt", <<
        ReLit(<<"D", "E", "B", "U", "G">>),
        ReLit(<<"I", "N", "F", "O">>),
        <<"cat", <<ReLit(<<"W", "A", "R", "N">>), ReOpt(ReLit(<<"I", "N", "G">>))>> >>,
        ReLit(<<"E", "R", "R", "O", "R">>),
        ReLit(<<"F", "A", "T", "A", "L">>),
        ReLit(<<"T", "R", "A", "C", "E">>)>> >>

\* \d{4}-\d{2}-\d{2}[T\s]\d{2}:\d{2}:\d{2}(?:\.\d+)?
ReStamp ==
    <<"cat", <<ReDate, <<"cls", {"T"} \cup SpaceChar>>, ReClock, ReFraction>> >>

\* the four patterns of the generic recognizer, in the order tried
GenericPatterns == <<
    \* ^(?P<timestamp>STAMP(?:Z|[+-]\d{2}:?\d{2})?)\s+(?P<level>LEVEL)\s+(?P<message>.+)$
    [names |-> <<K_timestamp, K_level, K_message>>,
     tree |->
       <<"cat", <<
          <<"bol">>,
          <<"grp", 1, <<"cat", <<
              ReStamp,
              ReOpt(<<"alt", <<
                  ReChar("Z"),
                  <<"cat", <<<<"cls", {"+", "-"}>>, ReTimes(ReDigit, 2),
                             ReOpt(ReChar(":")), ReTimes(ReDigit, 2)>> >> >> >>)>> >> >>,
          RePlus(ReSpace),
          <<"grp", 2, ReLevel>>,
          RePlus(ReSpace),
          <<"grp", 3, RePlus(ReAny)>>,
          <<"eol">> >> >>],
    \* ^(?P<level>LEVEL)\s+(?P<timestamp>STAMP)\s+(?P<message>.+)$
    [names |-> <<K_level, K_timestamp, K_message>>,
     tree |->
       <<"cat", <<
          <<"bol">>,
          <<"grp", 1, ReLevel>>,
          RePlus(ReSpace),
          <<"grp", 2, ReStamp>>,
          RePlus(ReSpace),
          <<"grp", 3, RePlus(ReAny)>>,
          <<"eol">> >> >>],
    \* ^(?:(?P<timestamp>STAMP)\s+)?\[(?P<level>LEVEL)\]\s+(?P<message>.+)$
    [names |-> <<K_timestamp, K_level, K_message>>,
     tree |->
       <<"cat", <<
          <<"bol">>,
          ReOpt(<<"cat", <<<<"grp", 1, ReStamp>>, RePlus(ReSpace)>> >>),
          ReChar("["),
          <<"grp", 2, ReLevel>>,
          ReChar("]"),
          RePlus(ReSpace),
          <<"grp", 3, RePlus(ReAny)>>,
          <<"eol">> >> >>],
    \* ^(?P<level>LEVEL)[:\-\s]+(?P<message>.+)$
    [names |-> <<K_level, K_message>>,
     tree |->
       <<"cat", <<
          <<"bol">>,
          <<"grp", 1, ReLevel>>,
          RePlus(<<"cls", {":", "-"} \cup SpaceChar>>),
          <<"grp", 2, RePlus(ReAny)>>,
          <<"eol">> >> >>] >>

(***************************************************************************)
(* Values of Entry.Fields (Go's any).  The tag t is the dynamic type:      *)
(*   "int" (Go int), "int64", "float64", "bool", "string", "nil",          *)
(*   "map" (map[string]any), "list" ([]any).                               *)
(* A float64 is [class, neg, mant, exp]: class "finite" is the decimal     *)
(* number (-1)^neg * mant * 10^exp with mant not divisible by 10 (0 has    *)
(* exp 0); the classes "inf" and "nan" are the IEEE specials.              *)
(***************************************************************************)
IntVal(n) == [t |-> "int", v |-> n]
Int64Val(n) == [t |-> "int64", v |-> n]
BoolVal(b) == [t |-> "bool", v |-> b]
StringVal(s) == [t |-> "string", v |-> s]
NilVal == [t |-> "nil"]
FloatVal(f) == [t |-> "float64", v |-> f]

FloatNaN == [class |-> "nan", neg |-> FALSE, mant |-> 0, exp |-> 0]
FloatInf(neg) == [class |-> "inf", neg |-> neg, mant |-> 0, exp |-> 0]

RECURSIVE FloatFinite(_, _, _)
FloatFinite(neg, mant, exp) ==
    IF mant = 0 THEN [class |-> "finite", neg |-> neg, mant |-> 0, exp |-> 0]
    ELSE IF mant % 10 = 0 THEN FloatFinite(neg, mant \div 10, exp + 1)
    ELSE [class |-> "finite", neg |-> neg, mant |-> mant, exp |-> exp]

(***************************************************************************)
(* strconv, on text.  Int64Bits is the width of int64 in the model: the    *)
(* range of ParseInt(s, 10, 64) is -2^(Int64Bits-1) .. 2^(Int64Bits-1)-1.  *)
(***************************************************************************)
Int64Bits == 16

MaxInt64 == 2 ^ (Int64Bits - 1) - 1
MinInt64 == -(2 ^ (Int64Bits - 1))

DigitValue(c) ==
    CASE c = "0" -> 0 [] c = "1" -> 1 [] c = "2" -> 2 [] c = "3" -> 3 [] c = "4" -> 4
      [] c = "5" -> 5 [] c = "6" -> 6 [] c = "7" -> 7 [] c = "8" -> 8 [] c = "9" -> 9

IsDigits(s) == s # <<>> /\ \A i \in 1..Len(s) : s[i] \in Digit

\* The value of a digit string, saturating just above limit (no wider arithmetic
\* than the limit needs)
RECURSIVE DigitsValue(_, _, _)
DigitsValue(s, acc, limit) ==
    IF s = <<>> THEN acc
    ELSE IF acc > limit THEN acc
    ELSE DigitsValue(Tail(s), acc * 10 + DigitValue(Head(s)), limit)

\* strconv.ParseInt(s, 10, 64): [ok, val]; a syntax error or a value out of
\* range gives ok = FALSE
ParseInt(s) ==
    LET signed == s # <<>> /\ Head(s) \in {"+", "-"}
        neg == s # <<>> /\ Head(s) = "-"
        digits == IF signed THEN Tail(s) ELSE s
        mag == DigitsValue(digits, 0, MaxInt64 + 1)
    IN  IF ~IsDigits(digits) THEN [ok |-> FALSE, val |-> 0]
        ELSE IF neg /\ mag <= MaxInt64 + 1 THEN [ok |-> TRUE, val |-> -mag]
        ELSE IF ~neg /\ mag <= MaxInt64 THEN [ok |-> TRUE, val |-> mag]
        ELSE [ok |-> FALSE, val |-> 0]

\* strconv.Atoi: Go's int is 64 bits wide on the platforms the program is built for
Atoi(s) == ParseInt(s)

\* strconv.ParseFloat's special(): inf, infinity (optional sign) and nan,
\* whatever the letter case
ParseSpecial(s) ==
    LET signed == s # <<>> /\ Head(s) \in {"+", "-"}
        neg == s # <<>> /\ Head(s) = "-"
        word == ToLower(IF signed THEN Tail(s) ELSE s)
    IN  IF word \in {<<"i", "n", "f">>, <<"i", "n", "f", "i", "n", "i", "t", "y">>}
        THEN [ok |-> TRUE, val |-> FloatInf(neg)]
        ELSE IF ~signed /\ word = <<"n", "a", "n">>
        THEN [ok |-> TRUE, val |-> FloatNaN]
        ELSE [ok |-> FALSE, val |-> FloatNaN]

\* The decimal syntax strconv.ParseFloat accepts:
\*   [+-]? (digits [. [digits]] | . digits) ([eE] [+-]? digits)?
\* groups: 1 sign, 2 integer part, 3 fraction, 4 fraction (no integer part),
\*         5 exponent sign, 6 exponent digits
DecimalPattern ==
    [names |-> <<<<>>, <<>>, <<>>, <<>>, <<>>, <<>>>>,
     tree |->
       <<"cat", <<
          <<"bol">>,
          <<"grp", 1, ReOpt(<<"cls", {"+", "-"}>>)>>,
          <<"alt", <<
              <<"cat", <<<<"grp", 2, RePlus(ReDigit)>>,
                         ReOpt(<<"cat", <<ReChar("."), <<"grp", 3, ReStar(ReDigit)>> >> >>)>> >>,
              <<"cat", <<ReChar("."), <<"grp", 4, RePlus(ReDigit)>> >> >> >> >>,
          ReOpt(<<"cat", <<<<"cls", {"e", "E"}>>,
                           <<"grp", 5, ReOpt(<<"cls", {"+", "-"}>>)>>,
                           <<"grp", 6, RePlus(ReDigit)>> >> >>),
          <<"eol">> >> >>]

\* Mantissas and exponents the model computes with: a decimal with more digits
\* than this is outside the lines of the model
MaxDecimal == 99999

\* strconv.ParseFloat(s, 64): [ok, val].  Hexadecimal mantissas (0x...p...) do
\* not occur in the lines of the model.
ParseDecimal(m) ==
    LET frac == IF m.caps[2] # <<>> THEN m.caps[3] ELSE m.caps[4]
        mant == DigitsValue(m.caps[2] \o frac, 0, MaxDecimal)
        e == DigitsValue(m.caps[6], 0, MaxDecimal)
        exp == (IF m.caps[5] = <<"-">> THEN -e ELSE e) - Len(frac)
    IN  IF m.found
        THEN [ok |-> TRUE, val |-> FloatFinite(m.caps[1] = <<"-">>, mant, exp)]
        ELSE [ok |-> FALSE, val |-> FloatNaN]

ParseFloat(s) ==
    IF ParseSpecial(s).ok THEN ParseSpecial(s)
    ELSE ParseDecimal(FindStringSubmatch(DecimalPattern, s))

\* inferType: integer, then float, then boolean, then the string itself
inferFrom(s, i, f, lower) ==
    IF i.ok THEN Int64Val(i.val)
    ELSE IF f.ok THEN FloatVal(f.val)
    ELSE IF lower = <<"t", "r", "u", "e">> THEN BoolVal(TRUE)
    ELSE IF lower = <<"f", "a", "l", "s", "e">> THEN BoolVal(FALSE)
    ELSE StringVal(s)

\* inferType, were the float tried before the integer
inferFloatFirst(s) ==
    IF ParseFloat(s).ok THEN FloatVal(ParseFloat(s).val)
    ELSE StringVal(s)

inferType(s) == inferFrom(s, ParseInt(s), ParseFloat(s), ToLower(s))

(***************************************************************************)
(* encoding/json: Unmarshal of a text into a map[string]any.               *)
(* A scan result is [ok, pos, val]: pos characters consumed, val the value *)
(* decoded.  Strings hold no escape sequences in the lines of the model: a *)
(* backslash is scanned as the start of a one-character escape.            *)
(***************************************************************************)
JSONSpace == {" ", "\t", "\n", "\r"}

JFail == [ok |-> FALSE, pos |-> 0, val |-> NilVal]

RECURSIVE JSkip(_, _)
JSkip(s, i) == IF i < Len(s) /\ s[i + 1] \in JSONSpace THEN JSkip(s, i + 1) ELSE i

\* -?(0|[1-9]\d*)(\.\d+)?([eE][+-]?\d+)?
JSONNumberPattern ==
    [names |-> <<>>,
     tree |->
       <<"cat", <<
          ReOpt(ReChar("-")),
          <<"alt", <<ReChar("0"),
                     <<"cat", <<<<"cls", Digit \ {"0"}>>, ReStar(ReDigit)>> >> >> >>,
          ReOpt(<<"cat", <<ReChar("."), RePlus(ReDigit)>> >>),
          ReOpt(<<"cat", <<<<"cls", {"e", "E"}>>, ReOpt(<<"cls", {"+", "-"}>>),
                           RePlus(ReDigit)>> >>) >> >>]

\* the characters of a string literal after its opening quote: i is the position
\* reached, acc the text decoded so far
RECURSIVE JStringRest(_, _, _)
JStringRest(s, i, acc) ==
    IF i >= Len(s) THEN JFail
    ELSE LET c == s[i + 1]
         IN  IF c = "\"" THEN [ok |-> TRUE, pos |-> i + 1, val |-> StringVal(acc)]
             ELSE IF c \in {"\t", "\n", "\r", "\f"} THEN JFail
             ELSE IF c = "\\"
             THEN IF i + 1 < Len(s) /\ s[i + 2] \in {"\"", "\\", "/"}
                  THEN JStringRest(s, i + 2, Append(acc, s[i + 2]))
                  ELSE JFail
             ELSE JStringRest(s, i + 1, Append(acc, c))

JString(s, i) ==
    IF i < Len(s) /\ s[i + 1] = "\"" THEN JStringRest(s, i + 1, <<>>) ELSE JFail

JLiteral(s, i, word, val) ==
    IF i + Len(word) <= Len(s) /\ SubSeq(s, i + 1, i + Len(word)) = word
    THEN [ok |-> TRUE, pos |-> i + Len(word), val |-> val]
    ELSE JFail

JNumberOf(s, i, rs) ==
    IF rs = <<>> THEN JFail
    ELSE [ok |-> TRUE, pos |-> rs[1].pos,
          val |-> FloatVal(ParseFloat(SubSeq(s, i + 1, rs[1].pos)).val)]

JNumber(s, i) == JNumberOf(s, i, ReMatch(JSONNumberPattern.tree, s, i, <<>>))

\* map[k] = v
SetField(fields, k, v) ==
    [x \in (DOMAIN fields) \cup {k} |-> IF x = k THEN v ELSE fields[x]]

RECURSIVE JValue(_, _), JMembers(_, _, _), JElements(_, _, _)

\* a value starting at position i (white space already skipped)
JValue(s, i) ==
    IF i >= Len(s) THEN JFail
    ELSE LET c == s[i + 1]
         IN  CASE c = "{" ->
                    LET j == JSkip(s, i + 1)
                    IN  IF j < Len(s) /\ s[j + 1] = "}"
                        THEN [ok |-> TRUE, pos |-> j + 1, val |-> [t |-> "map", v |-> <<>>]]
                        ELSE JMembers(s, j, <<>>)
               [] c = "[" ->
                    LET j == JSkip(s, i + 1)
                    IN  IF j < Len(s) /\ s[j + 1] = "]"
                        THEN [ok |-> TRUE, pos |-> j + 1, val |-> [t |-> "list", v |-> <<>>]]
                        ELSE JElements(s, j, <<>>)
               [] c = "\"" -> JString(s, i)
               [] c = "t" -> JLiteral(s, i, <<"t", "r", "u", "e">>, BoolVal(TRUE))
               [] c = "f" -> JLiteral(s, i, <<"f", "a", "l", "s", "e">>, BoolVal(FALSE))
               [] c = "n" -> JLiteral(s, i, <<"n", "u", "l", "l">>, NilVal)
               [] OTHER -> JNumber(s, i)

\* "key" : value , ... } with the key expected at position i; a repeated key
\* keeps its last value
JMembers(s, i, acc) ==
    LET k == JString(s, i)
        colon == JSkip(s, k.pos)
        v == JValue(s, JSkip(s, colon + 1))
        next == JSkip(s, v.pos)
    IN  IF ~k.ok THEN JFail
        ELSE IF ~(colon < Len(s) /\ s[colon + 1] = ":") THEN JFail
        ELSE IF ~v.ok \/ next >= Len(s) THEN JFail
        ELSE IF s[next + 1] = "}"
        THEN [ok |-> TRUE, pos |-> next + 1,
              val |-> [t |-> "map", v |-> SetField(acc, k.val.v, v.val)]]
        ELSE IF s[next + 1] = ","
        THEN JMembers(s, JSkip(s, next + 1), SetField(acc, k.val.v, v.val))
        ELSE JFail

\* value , ... ] with the value expected at position i
JElements(s, i, acc) ==
    LET v == JValue(s, i)
        next == JSkip(s, v.pos)
    IN  IF ~v.ok \/ next >= Len(s) THEN JFail
        ELSE IF s[next + 1] = "]"
        THEN [ok |-> TRUE, pos |-> next + 1,
              val |-> [t |-> "list", v |-> Append(acc, v.val)]]
        ELSE IF s[next + 1] = ","
        THEN JElements(s, JSkip(s, next + 1), Append(acc, v.val))
        ELSE JFail

\* json.Unmarshal([]byte(s), &fields) with fields an empty map:
\* [err, fields].  The text must be one JSON value with nothing but white space
\* around it; an object fills the map, null leaves it as it is, any other value
\* cannot be stored in a map.
UnmarshalValue(s, r) ==
    IF ~r.ok \/ JSkip(s, r.pos) # Len(s)
    THEN [err |-> "json.SyntaxError", fields |-> <<>>]
    ELSE IF r.val.t = "map" THEN [err |-> "nil", fields |-> r.val.v]
    ELSE IF r.val.t = "nil" THEN [err |-> "nil", fields |-> <<>>]
    ELSE [err |-> "json.UnmarshalTypeError", fields |-> <<>>]

Unmarshal(s) == UnmarshalValue(s, JValue(s, JSkip(s, 0)))

(***************************************************************************)
(* Entry and the errors of package parser                                  *)
(***************************************************************************)
\* An error is "nil" or the name of the error value; ErrorText(err) is the text
\* err.Error() returns, kept as one opaque unit of text
ErrNoMatch == "ErrNoMatch"
ErrEmptyLine == "ErrEmptyLine"

ErrorText(err) == <<err>>

\* NewEntry, were it to keep the trimmed line
TrimmedEntry(raw) ==
    [Fields |-> <<>>, Raw |-> TrimSpace(raw), LineNum |-> 0, ParseError |-> "nil"]

NewEntry(raw) == [Fields |-> <<>>, Raw |-> raw, LineNum |-> 0, ParseError |-> "nil"]

\* what a recognizer's Parse returns: (*Entry, error)
Return(entry, err) == [entry |-> entry, err |-> err]

\* the nil *Entry
NoEntry == [Fields |-> <<>>, Raw |-> <<"nil">>, LineNum |-> -1, ParseError |-> "no entry"]

(***************************************************************************)
(* JSON recognizer                                                         *)
(***************************************************************************)
N_json == <<"j", "s", "o", "n">>
N_kv == <<"k", "v">>
N_syslog == <<"s", "y", "s", "l", "o", "g">>
N_apache == <<"a", "p", "a", "c", "h", "e">>
N_generic == <<"g", "e", "n", "e", "r", "i", "c">>
N_regex == <<"r", "e", "g", "e", "x">>

JSONCanParse(line) ==
    LET trimmed == TrimSpace(line)
    IN  Len(trimmed) >= 2 /\ trimmed[1] = "{" /\ trimmed[Len(trimmed)] = "}"

\* Parse, were the error of json.Unmarshal returned to the caller
JSONEntryOrError(line, entry, u) ==
    IF u.err # "nil" THEN Return(NoEntry, u.err)
    ELSE Return([entry EXCEPT !.Fields = u.fields], "nil")

\* the rest of Parse once json.Unmarshal has returned u
JSONEntry(line, entry, u) ==
    IF u.err # "nil"
    THEN Return([entry EXCEPT
                    !.ParseError = u.err,
                    !.Fields = SetField(SetField(u.fields, K_raw, StringVal(line)),
                                        K_parseError, StringVal(ErrorText(u.err)))],
                "nil")
    ELSE Return([entry EXCEPT !.Fields = u.fields], "nil")

JSONParse(line) == JSONEntry(line, NewEntry(line), Unmarshal(line))

(***************************************************************************)
(* Key=value recognizer                                                    *)
(***************************************************************************)
KeyValueCanParse(line) == Len(FindAllStringSubmatch(KeyValuePattern, line)) >= 2

\* the loop over the matches: Fields[key] = inferType(value)
RECURSIVE KeyValueFields(_, _, _)
KeyValueFields(matches, k, fields) ==
    IF k > Len(matches) THEN fields
    ELSE LET match == matches[k].caps
             value == IF match[2] # <<>> THEN match[2]
                      ELSE IF match[3] # <<>> THEN match[3]
                      ELSE match[4]
         IN  KeyValueFields(matches, k + 1, SetField(fields, match[1], inferType(value)))

\* the rest of Parse once FindAllStringSubmatch has returned matches
KeyValueEntry(line, entry, matches) ==
    IF Len(matches) = 0
    THEN Return([entry EXCEPT !.ParseError = ErrNoMatch,
                              !.Fields = SetField(<<>>, K_raw, StringVal(line))], "nil")
    ELSE Return([entry EXCEPT !.Fields = KeyValueFields(matches, 1, <<>>)], "nil")

KeyValueParse(line) ==
    KeyValueEntry(line, NewEntry(line), FindAllStringSubmatch(KeyValuePattern, line))

(***************************************************************************)
(* Syslog recognizer                                                       *)
(***************************************************************************)
SyslogCanParse(line) == MatchString(SyslogPattern, line)

\* the loop over the groups, were a group that captured nothing stored too
RECURSIVE SyslogFieldsWithEmpty(_, _, _, _)
SyslogFieldsWithEmpty(names, caps, i, fields) ==
    IF i > Len(caps) THEN fields
    ELSE IF names[i] = <<>> THEN SyslogFieldsWithEmpty(names, caps, i + 1, fields)
    ELSE IF names[i] = K_pid /\ Atoi(caps[i]).ok
    THEN SyslogFieldsWithEmpty(names, caps, i + 1,
                               SetField(fields, names[i], IntVal(Atoi(caps[i]).val)))
    ELSE SyslogFieldsWithEmpty(names, caps, i + 1,
                               SetField(fields, names[i], StringVal(caps[i])))

\* the loop over the groups i = 1 .. of the match
RECURSIVE SyslogFields(_, _, _, _)
SyslogFields(names, caps, i, fields) ==
    IF i > Len(caps) THEN fields
    ELSE IF names[i] = <<>> \/ caps[i] = <<>> THEN SyslogFields(names, caps, i + 1, fields)
    ELSE IF names[i] = K_pid /\ Atoi(caps[i]).ok
    THEN SyslogFields(names, caps, i + 1, SetField(fields, names[i], IntVal(Atoi(caps[i]).val)))
    ELSE SyslogFields(names, caps, i + 1, SetField(fields, names[i], StringVal(caps[i])))

\* the rest of Parse once FindStringSubmatch has returned matches
SyslogEntry(line, entry, matches) ==
    IF ~matches.found
    THEN Return([entry EXCEPT !.ParseError = ErrNoMatch,
                              !.Fields = SetField(<<>>, K_raw, StringVal(line))], "nil")
    ELSE Return([entry EXCEPT
                    !.Fields = SyslogFields(SyslogPattern.names, matches.caps, 1, <<>>)],
                "nil")

SyslogParse(line) ==
    SyslogEntry(line, NewEntry(line), FindStringSubmatch(SyslogPattern, line))

(***************************************************************************)
(* Apache combined recognizer                                              *)
(***************************************************************************)
ApacheCanParse(line) == MatchString(ApachePattern, line)

\* the loop over the groups, were a capture of "-" stored like any other
RECURSIVE ApacheFieldsWithDash(_, _, _, _)
ApacheFieldsWithDash(names, caps, i, fields) ==
    IF i > Len(caps) THEN fields
    ELSE IF names[i] = <<>> \/ caps[i] = <<>>
    THEN ApacheFieldsWithDash(names, caps, i + 1, fields)
    ELSE IF names[i] = K_status /\ Atoi(caps[i]).ok
    THEN ApacheFieldsWithDash(names, caps, i + 1,
                              SetField(fields, names[i], IntVal(Atoi(caps[i]).val)))
    ELSE IF names[i] = K_size /\ ParseInt(caps[i]).ok
    THEN ApacheFieldsWithDash(names, caps, i + 1,
                              SetField(fields, names[i], Int64Val(ParseInt(caps[i]).val)))
    ELSE ApacheFieldsWithDash(names, caps, i + 1,
                              SetField(fields, names[i], StringVal(caps[i])))

\* the loop over the groups i = 1 .. of the match
RECURSIVE ApacheFields(_, _, _, _)
ApacheFields(names, caps, i, fields) ==
    IF i > Len(caps) THEN fields
    ELSE IF names[i] = <<>> \/ caps[i] = <<>> \/ caps[i] = <<"-">>
    THEN ApacheFields(names, caps, i + 1, fields)
    ELSE IF names[i] = K_status /\ Atoi(caps[i]).ok
    THEN ApacheFields(names, caps, i + 1, SetField(fields, names[i], IntVal(Atoi(caps[i]).val)))
    ELSE IF names[i] = K_size /\ ParseInt(caps[i]).ok
    THEN ApacheFields(names, caps, i + 1,
                      SetField(fields, names[i], Int64Val(ParseInt(caps[i]).val)))
    ELSE ApacheFields(names, caps, i + 1, SetField(fields, names[i], StringVal(caps[i])))

\* the rest of Parse once FindStringSubmatch has returned matches
ApacheEntry(line, entry, matches) ==
    IF ~matches.found
    THEN Return([entry EXCEPT !.ParseError = ErrNoMatch,
                              !.Fields = SetField(<<>>, K_raw, StringVal(line))], "nil")
    ELSE Return([entry EXCEPT
                    !.Fields = ApacheFields(ApachePattern.names, matches.caps, 1, <<>>)],
                "nil")

ApacheParse(line) ==
    ApacheEntry(line, NewEntry(line), FindStringSubmatch(ApachePattern, line))

(***************************************************************************)
(* Generic recognizer                                                      *)
(***************************************************************************)
GenericCanParse(line) == TRUE

RECURSIVE GenericFields(_, _, _, _)
GenericFields(names, caps, i, fields) ==
    IF i > Len(caps) THEN fields
    ELSE IF names[i] = <<>> \/ caps[i] = <<>> THEN GenericFields(names, caps, i + 1, fields)
    ELSE IF names[i] = K_level
    THEN GenericFields(names, caps, i + 1,
                       SetField(fields, names[i], StringVal(ToUpper(caps[i]))))
    ELSE GenericFields(names, caps, i + 1, SetField(fields, names[i], StringVal(caps[i])))

\* the loop over the patterns, from pattern k on
RECURSIVE GenericTry(_, _, _), GenericMatched(_, _, _, _)
GenericTry(line, trimmed, k) ==
    IF k > Len(GenericPatterns)
    THEN SetField(<<>>, K_message, StringVal(trimmed))
    ELSE GenericMatched(line, trimmed, k, FindStringSubmatch(GenericPatterns[k], line))

\* pattern k has returned matches
GenericMatched(line, trimmed, k, matches) ==
    IF matches.found
    THEN GenericFields(GenericPatterns[k].names, matches.caps, 1, <<>>)
    ELSE GenericTry(line, trimmed, k + 1)

\* Parse, were the test for an empty line missing
GenericParseUnchecked(line) ==
    Return([NewEntry(line) EXCEPT !.Fields = GenericTry(line, TrimSpace(line), 1)], "nil")

GenericParse(line) ==
    LET entry == NewEntry(line)
        trimmed == TrimSpace(line)
    IN  IF trimmed = <<>>
        THEN Return([entry EXCEPT !.Fields = SetField(<<>>, K_message, StringVal(<<>>)),
                                  !.ParseError = ErrEmptyLine], "nil")
        ELSE Return([entry EXCEPT !.Fields = GenericTry(line, trimmed, 1)], "nil")

(***************************************************************************)
(* User pattern recognizer (RegexParser).  A pattern text is a string; the *)
(* expressions a user can pass in the model are the ones regexp.Compile is *)
(* tabulated for.                                                          *)
(***************************************************************************)
K_msg == <<"m", "s", "g">>
K_key == <<"k", "e", "y">>
K_val == <<"v", "a", "l">>

\* regexp.Compile: [err, pat]
Compile(patternText) ==
    CASE patternText = "(?P<msg>.+)" ->
            [err |-> "nil",
             pat |-> [names |-> <<K_msg>>, tree |-> <<"grp", 1, RePlus(ReAny)>>]]
      [] patternText = "^(?P<key>\\w+):(?P<val>\\d*)$" ->
            [err |-> "nil",
             pat |-> [names |-> <<K_key, K_val>>,
                      tree |-> <<"cat", <<<<"bol">>, <<"grp", 1, RePlus(ReWord)>>, ReChar(":"),
                                          <<"grp", 2, ReStar(ReDigit)>>, <<"eol">> >> >>]]
      [] patternText = "(?P<key>\\w+)(=(?P<val>\\d+))?" ->
            [err |-> "nil",
             pat |-> [names |-> <<K_key, <<>>, K_val>>,
                      tree |-> <<"cat", <<<<"grp", 1, RePlus(ReWord)>>,
                                          ReOpt(<<"grp", 2,
                                                  <<"cat", <<ReChar("="),
                                                             <<"grp", 3, RePlus(ReDigit)>> >> >> >>)
                                        >> >>]]
      [] patternText = "\\d+" ->
            [err |-> "nil", pat |-> [names |-> <<>>, tree |-> RePlus(ReDigit)]]
      [] patternText = "(\\w+)=" ->
            [err |-> "nil",
             pat |-> [names |-> <<<<>>>>,
                      tree |-> <<"cat", <<<<"grp", 1, RePlus(ReWord)>>, ReChar("=")>> >>]]
      [] patternText = "(?P<msg>.+" ->
            [err |-> "error parsing regexp: missing closing )",
             pat |-> [names |-> <<>>, tree |-> <<"bol">>]]

\* the pattern texts of the model
ValidPatternTexts == {"(?P<msg>.+)", "^(?P<key>\\w+):(?P<val>\\d*)$"}
InvalidPatternTexts == {"\\d+", "(\\w+)=", "(?P<msg>.+"}

\* a pattern with a named group inside an optional group
OptionalGroupText == "(?P<key>\\w+)(=(?P<val>\\d+))?"

\* A recognizer object: its type and, for a RegexParser, its pattern text
ParserOf(kind) == [kind |-> kind, patternText |-> ""]

\* NewRegexParser, were the named groups not looked for
NewRegexParserUnnamed(patternText) ==
    IF Compile(patternText).err # "nil"
    THEN [err |-> "invalid regex pattern", parser |-> ParserOf("nil")]
    ELSE [err |-> "nil", parser |-> [kind |-> "regex", patternText |-> patternText]]

\* NewRegexParser: [err, parser]; the parser is nil when err is set
NewRegexParser(patternText) ==
    LET c == Compile(patternText)
        hasNamedGroup == \E i \in 1..Len(c.pat.names) : c.pat.names[i] # <<>>
    IN  IF c.err # "nil"
        THEN [err |-> "invalid regex pattern", parser |-> ParserOf("nil")]
        ELSE IF ~hasNamedGroup
        THEN [err |-> "pattern must have at least one named group",
              parser |-> ParserOf("nil")]
        ELSE [err |-> "nil", parser |-> [kind |-> "regex", patternText |-> patternText]]

RegexCanParse(p, line) == MatchString(Compile(p.patternText).pat, line)

\* the loop over the groups, were the groups that captured nothing passed over
RECURSIVE RegexFieldsNonEmpty(_, _, _, _)
RegexFieldsNonEmpty(names, caps, i, fields) ==
    IF i > Len(caps) THEN fields
    ELSE IF names[i] = <<>> \/ caps[i] = <<>>
    THEN RegexFieldsNonEmpty(names, caps, i + 1, fields)
    ELSE RegexFieldsNonEmpty(names, caps, i + 1,
                             SetField(fields, names[i], inferType(caps[i])))

\* the loop over the groups: every named group is stored, whatever it captured
RECURSIVE RegexFields(_, _, _, _)
RegexFields(names, caps, i, fields) ==
    IF i > Len(caps) THEN fields
    ELSE IF names[i] = <<>> THEN RegexFields(names, caps, i + 1, fields)
    ELSE RegexFields(names, caps, i + 1, SetField(fields, names[i], inferType(caps[i])))

\* the rest of Parse once FindStringSubmatch has returned matches
RegexEntry(line, entry, pattern, matches) ==
    IF ~matches.found
    THEN Return([entry EXCEPT !.ParseError = ErrNoMatch,
                              !.Fields = SetField(<<>>, K_raw, StringVal(line))], "nil")
    ELSE Return([entry EXCEPT !.Fields = RegexFields(pattern.names, matches.caps, 1, <<>>)],
                "nil")

RegexParse(p, line) ==
    RegexEntry(line, NewEntry(line), Compile(p.patternText).pat,
               FindStringSubmatch(Compile(p.patternText).pat, line))

(***************************************************************************)
(* The Parser interface: dynamic dispatch on the recognizer's type         *)
(***************************************************************************)
Name(p) ==
    CASE p.kind = "json" -> N_json
      [] p.kind = "kv" -> N_kv
      [] p.kind = "syslog" -> N_syslog
      [] p.kind = "apache" -> N_apache
      [] p.kind = "generic" -> N_generic
      [] p.kind = "regex" -> N_regex

CanParse(p, line) ==
    CASE p.kind = "json" -> JSONCanParse(line)
      [] p.kind = "kv" -> KeyValueCanParse(line)
      [] p.kind = "syslog" -> SyslogCanParse(line)
      [] p.kind = "apache" -> ApacheCanParse(line)
      [] p.kind = "generic" -> GenericCanParse(line)
      [] p.kind = "regex" -> RegexCanParse(p, line)

Parse(p, line) ==
    CASE p.kind = "json" -> JSONParse(line)
      [] p.kind = "kv" -> KeyValueParse(line)
      [] p.kind = "syslog" -> SyslogParse(line)
      [] p.kind = "apache" -> ApacheParse(line)
      [] p.kind = "generic" -> GenericParse(line)
      [] p.kind = "regex" -> RegexParse(p, line)

(***************************************************************************)
(* The lines of the model                                                  *)
(***************************************************************************)
\* the empty line
L_empty == <<>>
\* white space only
L_blank == <<" ", "\t">>
L_json == <<"{", "\"", "a", "\"", ":", "1", "}">>
L_syslog ==
    <<"J", "a", "n", " ", "5", " ", "1", "0", ":", "3", "0", ":", "4", "5", " ", "h", " ", "s",
      "s", "h", "d", "[", "1", "2", "]", ":", " ", "o", "k">>
L_kv == <<"a", "=", "1", " ", "b", "=", "x">>
L_apache ==
    <<"1", ".", "1", ".", "1", ".", "1", " ", "-", " ", "-", " ", "[", "t", "]", " ", "\"",
      "G", "E", "T", " ", "/", " ", "H", "\"", " ", "2", "0", "0", " ", "5">>
\* plain text, with white space around it
L_plain == <<" ", "h", "e", "l", "l", "o", " ">>
L_level == <<"I", "N", "F", "O", ":", " ", "u", "p">>
\* shaped like JSON, not JSON, and two key=value pairs
L_jsonkv == <<"{", "a", "=", "1", " ", "b", "=", "2", "}">>
\* shaped like JSON, not JSON, and nothing else
L_broken == <<"{", "o", "o", "p", "s", "}">>
\* a key=value line with a value strconv.ParseFloat reads as NaN
L_nan == <<"a", "=", "N", "a", "N", " ", "b", "=", "1">>
L_colon == <<"k", ":">>

Lines ==
    {L_empty, L_blank, L_json, L_syslog, L_kv, L_apache, L_plain, L_level, L_jsonkv,
     L_broken, L_nan, L_colon}

(***************************************************************************)
(* The recognizer objects of the model, and their CanParse and Parse on    *)
(* the lines of the model.  Recognizers hold no state that changes, so a   *)
(* call is a function of the recognizer and the line: the two tables hold  *)
(* each call's result, evaluated once.                                     *)
(***************************************************************************)
BuiltinParsers ==
    {ParserOf("json"), ParserOf("kv"), ParserOf("syslog"), ParserOf("apache"),
     ParserOf("generic")}

RegexParsers == {NewRegexParser(text).parser : text \in ValidPatternTexts}

Parsers == BuiltinParsers \cup RegexParsers

\* further lines, given to the recognizers called on their own
L_syslog_nopid == <<"J", "a", "n", " ", "5", " ", "1", "0", ":", "3", "0", ":", "4", "5", " ",
                    "h", " ", "s", "s", "h", "d", ":", " ", "o", "k">>
L_apache_dash == <<"1", " ", "-", " ", "-", " ", "[", "t", "]", " ", "\"", "G", " ", "/", " ",
                   "H", "\"", " ", "2", "0", "0", " ", "-", " ", "\"", "-", "\"", " ",
                   "\"", "u", "\"">>
L_apache_word == <<"1", " ", "-", " ", "-", " ", "[", "t", "]", " ", "\"", "G", " ", "/", " ",
                   "H", "\"", " ", "2", "0", "0", " ", "5", "x">>
L_apache_big == <<"1", " ", "u", " ", "-", " ", "[", "-", "]", " ", "\"", "G", " ", "/", " ",
                  "H", "\"", " ", "9", "9", "9", "9", "9", "9", " ", "7">>

L_level_blank == <<"I", "N", "F", "O", ":", " ", " ">>
L_array == <<"[", "1", "]">>
L_null == <<"n", "u", "l", "l">>
L_cut == <<"{", "\"", "a", "\"", ":">>

AllLines ==
    Lines \cup {L_syslog_nopid, L_apache_dash, L_apache_word, L_apache_big, L_level_blank,
               L_array, L_null, L_cut}

AllParsers == Parsers \cup {NewRegexParser(OptionalGroupText).parser}

CanParseTable == [x \in AllParsers \X AllLines |-> CanParse(x[1], x[2])] @@ <<>>

ParseTable == [x \in AllParsers \X AllLines |-> Parse(x[1], x[2])] @@ <<>>

\* p.CanParse(line) and p.Parse(line)
CallCanParse(p, line) == CanParseTable[<<p, line>>]

CallParse(p, line) == ParseTable[<<p, line>>]

(***************************************************************************)
(* Registry                                                                *)
(***************************************************************************)
\* the nil Parser
NoParser == ParserOf("nil")

\* A Registry value: [parsers, cached, adaptive, forcedFormat]

\* NewRegistry, were the generic recognizer not registered
NewRegistryNoGeneric(adaptiveOpt, formatOpt) ==
    [parsers |-> <<ParserOf("json"), ParserOf("kv"), ParserOf("syslog"),
                   ParserOf("apache")>>,
     cached |-> NoParser,
     adaptive |-> adaptiveOpt,
     forcedFormat |-> ToLower(formatOpt)]

\* WithForcedFormat stores the lower-cased name; WithAdaptiveMode sets adaptive.
\* NewRegistry applies the options to an empty Registry, then registers the
\* built-in recognizers in priority order.
NewRegistry(adaptiveOpt, formatOpt) ==
    [parsers |-> <<ParserOf("json"), ParserOf("kv"), ParserOf("syslog"),
                   ParserOf("apache"), ParserOf("generic")>>,
     cached |-> NoParser,
     adaptive |-> adaptiveOpt,
     forcedFormat |-> ToLower(formatOpt)]

\* Register, were it to put the recognizer in front of the others
RegisterInFront(r, p) == [r EXCEPT !.parsers = <<p>> \o r.parsers]

\* Register, were it to clear the cache
RegisterAndReset(r, p) == [r EXCEPT !.parsers = Append(r.parsers, p), !.cached = NoParser]

\* Register: r.parsers = append(r.parsers, p)
RegistryRegister(r, p) == [r EXCEPT !.parsers = Append(r.parsers, p)]

\* GetParser, were it to fall back to the first recognizer for an unknown name
GetParserOrFirst(ps, name, k) ==
    IF \E j \in k..Len(ps) : ToLower(Name(ps[j])) = name
    THEN ps[CHOOSE j \in k..Len(ps) :
                /\ ToLower(Name(ps[j])) = name
                /\ \A i \in k..(j - 1) : ToLower(Name(ps[i])) # name]
    ELSE ps[1]

\* GetParser: the first registered recognizer with that name, letter case ignored
RECURSIVE GetParserFrom(_, _, _)
GetParserFrom(ps, name, k) ==
    IF k > Len(ps) THEN NoParser
    ELSE IF ToLower(Name(ps[k])) = name THEN ps[k]
    ELSE GetParserFrom(ps, name, k + 1)

GetParser(r, name) == GetParserFrom(r.parsers, ToLower(name), 1)

\* A call of a recognizer made by the Registry, as recorded in the result
Called(op, p) == [op |-> op, kind |-> p.kind]

\* What Registry.Parse gives: the returned (entry, err), the cache after the
\* call and the recognizer calls made, in order
Outcome(ret, cachedAfter, calls) ==
    [entry |-> ret.entry, err |-> ret.err, cached |-> cachedAfter, calls |-> calls]

\* Registry.Parse, were the forced format never looked at
ForcedFormatIgnored(r) == FALSE

\* "if r.forcedFormat != """
ForcedFormatSet(r) == r.forcedFormat # <<>>

\* Registry.Parse, were the cached recognizer never used
CachedNeverUsed(r) == FALSE

\* "if !r.adaptive && r.cached != nil"
UseCached(r) == ~r.adaptive /\ r.cached # NoParser

\* the loop, were it to accept what the first identifying recognizer returns
AcceptedUnchecked(ret) == TRUE

\* "if err == nil && entry.ParseError == nil"
Accepted(ret) == ret.err = "nil" /\ ret.entry.ParseError = "nil"

\* the loop, were the fallback recognizer never cached
CacheUnlessGeneric(r, p) ==
    IF ~r.adaptive /\ r.cached = NoParser /\ p.kind # "generic" THEN p ELSE r.cached

\* the loop, were it to cache in adaptive mode too
CacheInEveryMode(r, p) == IF r.cached = NoParser THEN p ELSE r.cached

\* "if !r.adaptive && r.cached == nil { r.cached = p }": the cache after a
\* successful detection by p
CacheAfter(r, p) == IF ~r.adaptive /\ r.cached = NoParser THEN p ELSE r.cached

\* the auto-detect loop "for _, p := range r.parsers", from index k on
RECURSIVE AutoDetect(_, _, _, _), AutoDetectTry(_, _, _, _, _, _, _)
AutoDetect(r, line, k, calls) ==
    IF k > Len(r.parsers)
    THEN [found |-> FALSE, ret |-> Return(NoEntry, "nil"), parser |-> NoParser,
          calls |-> calls]
    ELSE AutoDetectTry(r, line, k, calls, r.parsers[k],
                       CallCanParse(r.parsers[k], line), CallParse(r.parsers[k], line))

\* the body of the loop for recognizer p: can is what p.CanParse(line) returns
\* and, when it is true, ret is what p.Parse(line) returns
AutoDetectTry(r, line, k, calls, p, can, ret) ==
    IF ~can
    THEN AutoDetect(r, line, k + 1, Append(calls, Called("CanParse", p)))
    ELSE IF Accepted(ret)
    THEN [found |-> TRUE, ret |-> Return(ret.entry, "nil"), parser |-> p,
          calls |-> calls \o <<Called("CanParse", p), Called("Parse", p)>>]
    ELSE AutoDetect(r, line, k + 1,
                    calls \o <<Called("CanParse", p), Called("Parse", p)>>)

\* Registry.Parse after the loop: d is what the loop found
AfterDetect(r, line, d, generic) ==
    IF d.found
    THEN Outcome(d.ret, CacheAfter(r, d.parser), d.calls)
    ELSE IF generic # NoParser
    THEN Outcome(CallParse(generic, line), r.cached,
                 Append(d.calls, Called("Parse", generic)))
    ELSE Outcome(Return([NewEntry(line) EXCEPT
                            !.Fields = SetField(<<>>, K_raw, StringVal(line)),
                            !.ParseError = ErrNoMatch], "nil"),
                 r.cached, d.calls)

\* Registry.Parse with a forced format, were an unknown name to give the
\* error together with an entry for the line
ForcedParseWithEntry(r, line, parser) ==
    IF parser = NoParser
    THEN Outcome(Return([NewEntry(line) EXCEPT !.ParseError = ErrNoMatch],
                        "unknown format"), r.cached, <<>>)
    ELSE Outcome(CallParse(parser, line), r.cached, <<Called("Parse", parser)>>)

\* Registry.Parse with a forced format: parser is what GetParser returned
ForcedParse(r, line, parser) ==
    IF parser = NoParser
    THEN Outcome(Return(NoEntry, "unknown format"), r.cached, <<>>)
    ELSE Outcome(CallParse(parser, line), r.cached, <<Called("Parse", parser)>>)

\* Registry.Parse, without its shortcut for empty lines
RegistryParseUnguarded(r, line) ==
    IF ForcedFormatSet(r)
    THEN ForcedParse(r, line, GetParser(r, r.forcedFormat))
    ELSE IF UseCached(r)
    THEN Outcome(CallParse(r.cached, line), r.cached, <<Called("Parse", r.cached)>>)
    ELSE AfterDetect(r, line, AutoDetect(r, line, 1, <<>>), GetParser(r, N_generic))

\* Registry.Parse
RegistryParse(r, line) ==
    IF TrimSpace(line) = <<>>
    THEN Outcome(Return([NewEntry(line) EXCEPT !.ParseError = ErrEmptyLine], "nil"),
                 r.cached, <<>>)
    ELSE IF ForcedFormatSet(r)
    THEN ForcedParse(r, line, GetParser(r, r.forcedFormat))
    ELSE IF UseCached(r)
    THEN Outcome(CallParse(r.cached, line), r.cached, <<Called("Parse", r.cached)>>)
    ELSE AfterDetect(r, line, AutoDetect(r, line, 1, <<>>), GetParser(r, N_generic))

(***************************************************************************)
(* Emitter.  A record written to the output is the object json.Encoder     *)
(* encodes, as the map from its keys to their values.  Pretty changes only *)
(* the layout of the text and AddTimestamp adds the reading of the clock:  *)
(* the objects of the model are built without them.                        *)
(***************************************************************************)
K_lineNumber == <<"_", "l", "i", "n", "e", "N", "u", "m", "b", "e", "r">>
K_rawField == <<"_", "r", "a", "w">>

\* emitter.Options, as runPipeline fills it from the Config
EmitOptions(c) ==
    [Fields |-> c.Fields, AddLineNumber |-> c.AddLineNumber, AddRaw |-> c.AddRaw,
     OmitEmpty |-> c.OmitEmpty]

\* buildOutput, were the Fields option ignored
AllFields(fields, names) == fields

\* the loop "for _, field := range e.options.Fields"
FilterFields(fields, names) ==
    [k \in {names[i] : i \in 1..Len(names)} \cap DOMAIN fields |-> fields[k]]

AddParseError(output, entry) ==
    IF entry.ParseError # "nil"
    THEN SetField(output, K_parseError, StringVal(ErrorText(entry.ParseError)))
    ELSE output

AddMetadata(options, output, entry) ==
    AddParseError(
        IF options.AddRaw
        THEN SetField(IF options.AddLineNumber
                      THEN SetField(output, K_lineNumber, IntVal(entry.LineNum))
                      ELSE output,
                      K_rawField, StringVal(entry.Raw))
        ELSE IF options.AddLineNumber
        THEN SetField(output, K_lineNumber, IntVal(entry.LineNum))
        ELSE output,
        entry)

buildOutput(options, entry) ==
    AddMetadata(options,
                IF Len(options.Fields) > 0
                THEN FilterFields(entry.Fields, options.Fields)
                ELSE entry.Fields,
                entry)

\* json.Encoder.Encode fails on a float64 that is NaN or an infinity
\* (json.UnsupportedValueError) and then writes nothing
Unsupported(v) == v.t = "float64" /\ v.v.class # "finite"

EncodeError(output) ==
    IF \E k \in DOMAIN output : Unsupported(output[k])
    THEN "json.UnsupportedValueError"
    ELSE "nil"

\* "if e.options.OmitEmpty && entry.ParseError != nil"
EmitSkips(options, entry) == options.OmitEmpty /\ entry.ParseError # "nil"

\* Emit, were the record left in the buffer of the bufio.Writer (no Flush)
EmitBuffered(options, failed, entry, writeFails) ==
    IF EmitSkips(options, entry)
    THEN [err |-> "nil", records |-> <<>>, failed |-> failed]
    ELSE [err |-> EncodeError(buildOutput(options, entry)), records |-> <<>>,
          failed |-> failed]

\* Emit: [err, records, failed].  failed is the error the bufio.Writer keeps once
\* a write to the output has failed, after which every write and flush fails;
\* writeFails tells whether the output rejects the write of this flush.  records
\* is what reached the output: the record, or nothing.
Emit(options, failed, entry, writeFails) ==
    IF EmitSkips(options, entry)
    THEN [err |-> "nil", records |-> <<>>, failed |-> failed]
    ELSE IF EncodeError(buildOutput(options, entry)) # "nil"
    THEN [err |-> EncodeError(buildOutput(options, entry)), records |-> <<>>,
          failed |-> failed]
    ELSE IF failed \/ writeFails
    THEN [err |-> "write error", records |-> <<>>, failed |-> TRUE]
    ELSE [err |-> "nil", records |-> <<buildOutput(options, entry)>>, failed |-> FALSE]

(***************************************************************************)
(* runPipeline: the registry it builds from the Config                     *)
(***************************************************************************)
\* runPipeline, were the format name not validated
FormatAccepted(c, r) == FALSE

\* "if cfg.Format != "" && cfg.Pattern == "" { if registry.GetParser(cfg.Format) == nil"
FormatUnknown(c, r) ==
    c.Format # <<>> /\ c.Pattern = "" /\ GetParser(r, c.Format) = NoParser

\* runPipeline, were the RegexParser registered in the registry of the options
BuildRegistryKept(c) ==
    IF c.Format # <<>> /\ GetParser(NewRegistry(c.Adaptive, c.Format), c.Format) = NoParser
    THEN [err |-> "unknown format", registry |-> NewRegistry(c.Adaptive, c.Format)]
    ELSE IF c.Pattern = ""
    THEN [err |-> "nil", registry |-> NewRegistry(c.Adaptive, c.Format)]
    ELSE IF NewRegexParser(c.Pattern).err # "nil"
    THEN [err |-> "invalid pattern", registry |-> NewRegistry(c.Adaptive, c.Format)]
    ELSE [err |-> "nil",
          registry |-> RegistryRegister(NewRegistry(c.Adaptive, c.Format),
                                        NewRegexParser(c.Pattern).parser)]

\* [err, registry]: the error runPipeline returns before it reads, or "nil" and
\* the registry the loop uses
BuildRegistry(c) ==
    IF FormatUnknown(c, NewRegistry(c.Adaptive, c.Format))
    THEN [err |-> "unknown format", registry |-> NewRegistry(c.Adaptive, c.Format)]
    ELSE IF c.Pattern = ""
    THEN [err |-> "nil", registry |-> NewRegistry(c.Adaptive, c.Format)]
    ELSE IF NewRegexParser(c.Pattern).err # "nil"
    THEN [err |-> "invalid pattern", registry |-> NewRegistry(c.Adaptive, c.Format)]
    ELSE [err |-> "nil",
          registry |-> RegistryRegister(NewRegistry(FALSE, N_regex),
                                        NewRegexParser(c.Pattern).parser)]

(***************************************************************************)
(* State                                                                   *)
(***************************************************************************)
VARIABLES
    parsers,        \* Registry.parsers
    cached,         \* Registry.cached
    adaptive,       \* Registry.adaptive
    forcedFormat,   \* Registry.forcedFormat
    call,           \* the last call made on the Registry or on a recognizer
    cfg,            \* runPipeline's Config
    input,          \* the lines of the input
    tooLong,        \* the first input line the scanner fails on (0: none)
    rpc,            \* the goroutine of Lines: "idle", "scan", "send", "closed"
    lineNumber,     \* StreamReader.lineNumber
    sending,        \* the Line the goroutine is sending on the channel
    pc,             \* runPipeline: "idle", "start", "loop", "done"
    ret,            \* what runPipeline returned
    lineCount,      \* runPipeline's lineCount
    errorCount,     \* runPipeline's errorCount
    output,         \* the records written to the output, in order
    failed,         \* the output has rejected a write
    trace           \* for each Line received, its Number and what the loop did

rvars == <<parsers, cached, adaptive, forcedFormat>>

pvars ==
    <<cfg, input, tooLong, rpc, lineNumber, sending, pc, ret, lineCount, errorCount,
      output, failed, trace>>

vars == <<rvars, call, pvars>>

\* the Registry of the state
Registry ==
    [parsers |-> parsers, cached |-> cached, adaptive |-> adaptive,
     forcedFormat |-> forcedFormat]

\* the recognizers that Register may add after the built-in ones
MaxRegistered == 1

\* format names a caller can force: a registered name in capitals, an unknown name
F_JSON == <<"J", "S", "O", "N">>
F_bogus == <<"b", "o", "g", "u", "s">>

FormatOptions == {<<>>, N_syslog, F_JSON, F_bogus, N_regex}

NoCall ==
    [op |-> "none", parser |-> NoParser, line |-> <<>>, entry |-> NoEntry, err |-> "nil",
     calls |-> <<>>, cachedBefore |-> NoParser]

\* reader.Line
NoLine == [Text |-> <<>>, Number |-> 0, Err |-> "nil"]

\* the Config of the zero value: no flag given
DefaultConfig ==
    [Format |-> <<>>, Pattern |-> "", Adaptive |-> FALSE, Fields |-> <<>>,
     AddLineNumber |-> FALSE, AddRaw |-> FALSE, OmitEmpty |-> FALSE]

\* runPipeline is not running
PipelineIdle ==
    /\ cfg = DefaultConfig
    /\ input = <<>>
    /\ tooLong = 0
    /\ rpc = "idle"
    /\ lineNumber = 0
    /\ sending = NoLine
    /\ pc = "idle"
    /\ ret = "none"
    /\ lineCount = 0
    /\ errorCount = 0
    /\ output = <<>>
    /\ failed = FALSE
    /\ trace = <<>>

Init ==
    /\ \E adaptiveOpt \in BOOLEAN, formatOpt \in FormatOptions :
          LET r == NewRegistry(adaptiveOpt, formatOpt)
          IN  /\ parsers = r.parsers
              /\ cached = r.cached
              /\ adaptive = r.adaptive
              /\ forcedFormat = r.forcedFormat
    /\ call = NoCall
    /\ PipelineIdle

\* the call r.Parse(line) that returned o, as the last call
ParseCall(line, o) ==
    [op |-> "Registry.Parse", parser |-> NoParser, line |-> line, entry |-> o.entry,
     err |-> o.err, calls |-> o.calls, cachedBefore |-> cached]

Parsed(line, o) ==
    /\ cached' = o.cached
    /\ call' = ParseCall(line, o)

\* r.Parse(line)
ParseLine(line) ==
    /\ Parsed(line, RegistryParse(Registry, line))
    /\ UNCHANGED <<parsers, adaptive, forcedFormat, pvars>>

\* r.Register(p), p a recognizer made by NewRegexParser
Register(patternText) ==
    LET made == NewRegexParser(patternText)
        r == RegistryRegister(Registry, made.parser)
    IN  /\ made.err = "nil"
        /\ Len(parsers) < 5 + MaxRegistered
        /\ parsers' = r.parsers
        /\ cached' = r.cached
        /\ adaptive' = r.adaptive
        /\ forcedFormat' = r.forcedFormat
        /\ call' = [NoCall EXCEPT !.op = "Register", !.parser = made.parser,
                                  !.cachedBefore = cached]
        /\ UNCHANGED pvars

\* p.Parse(line) called on a recognizer directly, outside the Registry
RecognizerParse(p, line) ==
    LET got == CallParse(p, line)
    IN  /\ call' = [op |-> "Parser.Parse", parser |-> p, line |-> line,
                    entry |-> got.entry, err |-> got.err, calls |-> <<>>,
                    cachedBefore |-> cached]
        /\ UNCHANGED <<rvars, pvars>>

Next ==
    \/ \E line \in Lines : ParseLine(line)
    \/ \E patternText \in ValidPatternTexts : Register(patternText)
    \/ \E p \in Parsers, line \in Lines : RecognizerParse(p, line)

Spec == Init /\ [][Next]_vars

(***************************************************************************)
(* runPipeline.  The goroutine of StreamReader.Lines and the loop of       *)
(* runPipeline meet on an unbuffered channel: a send and its receive are   *)
(* one step, taken with the body of the loop.                              *)
(***************************************************************************)
\* the lines an input of the model is made of
PipelineLines == {L_blank, L_json, L_nan, L_colon}

\* the most lines an input has
MaxInput == 2

Inputs == UNION {[1..n -> PipelineLines] : n \in 0..MaxInput}

F_b == <<"b">>

Configs ==
    {[Format |-> f, Pattern |-> pt, Adaptive |-> ad, Fields |-> e[1],
      AddLineNumber |-> e[2], AddRaw |-> e[3], OmitEmpty |-> e[4]] :
        f \in {<<>>, F_JSON, F_bogus},
        pt \in {"", "^(?P<key>\\w+):(?P<val>\\d*)$", "(?P<msg>.+", "\\d+"},
        ad \in BOOLEAN,
        e \in {<<<<>>, FALSE, FALSE, FALSE>>, <<<<>>, TRUE, TRUE, TRUE>>,
               <<<<F_b, K_key>>, TRUE, FALSE, FALSE>>}}

PipelineInit ==
    /\ cfg \in Configs
    /\ input \in Inputs
    /\ tooLong \in 0..Len(input)
    /\ parsers = <<>>
    /\ cached = NoParser
    /\ adaptive = FALSE
    /\ forcedFormat = <<>>
    /\ call = NoCall
    /\ rpc = "idle"
    /\ lineNumber = 0
    /\ sending = NoLine
    /\ pc = "start"
    /\ ret = "none"
    /\ lineCount = 0
    /\ errorCount = 0
    /\ output = <<>>
    /\ failed = FALSE
    /\ trace = <<>>

\* runPipeline up to the loop: the registry, the emitter, the reader, and
\* "range streamReader.Lines()", which starts the goroutine
Setup ==
    /\ pc = "start"
    /\ LET b == BuildRegistry(cfg)
       IN  /\ parsers' = b.registry.parsers
           /\ cached' = b.registry.cached
           /\ adaptive' = b.registry.adaptive
           /\ forcedFormat' = b.registry.forcedFormat
           /\ IF b.err # "nil"
              THEN pc' = "done" /\ ret' = b.err /\ rpc' = rpc
              ELSE pc' = "loop" /\ ret' = ret /\ rpc' = "scan"
    /\ UNCHANGED <<call, cfg, input, tooLong, lineNumber, sending, lineCount, errorCount,
                   output, failed, trace>>

\* the Line of a scanner error, were it numbered like the last line read
ErrLineUnnumbered(n) == [Text |-> <<>>, Number |-> n, Err |-> "ErrTooLong"]

\* "lines <- Line{Number: r.lineNumber + 1, Err: err}", n the lines read so far
ErrLine(n) == [Text |-> <<>>, Number |-> n + 1, Err |-> "ErrTooLong"]

\* the goroutine of Lines, were the channel left open at the end of the input
ReaderScanNoClose ==
    /\ rpc = "scan"
    /\ lineNumber < Len(input) /\ lineNumber + 1 # tooLong
    /\ lineNumber' = lineNumber + 1
    /\ sending' = [Text |-> input[lineNumber + 1], Number |-> lineNumber + 1, Err |-> "nil"]
    /\ rpc' = "send"
    /\ UNCHANGED <<rvars, call, cfg, input, tooLong, pc, ret, lineCount, errorCount, output,
                   failed, trace>>

\* the goroutine of Lines up to its next send or to the close of the channel
ReaderScan ==
    /\ rpc = "scan"
    /\ IF lineNumber + 1 = tooLong
       THEN /\ sending' = ErrLine(lineNumber)
            /\ rpc' = "send"
            /\ lineNumber' = lineNumber
       ELSE IF lineNumber < Len(input)
       THEN /\ lineNumber' = lineNumber + 1
            /\ sending' = [Text |-> input[lineNumber + 1], Number |-> lineNumber + 1,
                           Err |-> "nil"]
            /\ rpc' = "send"
       ELSE /\ rpc' = "closed"
            /\ UNCHANGED <<lineNumber, sending>>
    /\ UNCHANGED <<rvars, call, cfg, input, tooLong, pc, ret, lineCount, errorCount, output,
                   failed, trace>>

\* what the loop did with a Line
Did(line, what) == [Number |-> line.Number, what |-> what]

\* "entry.LineNum = line.Number", were the records written counted instead
LineNumOfOutput(entry, line) == [entry EXCEPT !.LineNum = Len(output) + 1]

\* "entry.LineNum = line.Number"
SetLineNum(entry, line) == [entry EXCEPT !.LineNum = line.Number]

\* the end of an iteration: emit.Emit(entry) has returned e
Emitted(e) ==
    /\ errorCount' = IF e.err # "nil" THEN errorCount + 1 ELSE errorCount
    /\ output' = output \o e.records
    /\ failed' = e.failed
    /\ trace' = Append(trace,
                       Did(sending,
                           IF e.err # "nil" THEN "output error"
                           ELSE IF e.records = <<>> THEN "skipped"
                           ELSE "written"))

\* an iteration from "entry, err := registry.Parse(line.Text)" on: Parse has
\* returned o
Process(o, writeFails) ==
    /\ Parsed(sending.Text, o)
    /\ IF o.err # "nil"
       THEN /\ errorCount' = errorCount + 1
            /\ trace' = Append(trace, Did(sending, "parse error"))
            /\ UNCHANGED <<output, failed>>
       ELSE Emitted(Emit(EmitOptions(cfg), failed, SetLineNum(o.entry, sending),
                         writeFails))

\* one iteration of the loop on the Line received; after a send the goroutine
\* scans on, and after the send of an error it closes the channel
ProcessLine(writeFails) ==
    /\ pc = "loop" /\ rpc = "send"
    /\ rpc' = IF sending.Err # "nil" THEN "closed" ELSE "scan"
    /\ sending' = NoLine
    /\ lineCount' = lineCount + 1
    /\ IF sending.Err # "nil"
       THEN /\ errorCount' = errorCount + 1
            /\ trace' = Append(trace, Did(sending, "read error"))
            /\ UNCHANGED <<cached, call, output, failed>>
       ELSE Process(RegistryParse(Registry, sending.Text), writeFails)
    /\ UNCHANGED <<parsers, adaptive, forcedFormat, cfg, input, tooLong, lineNumber, pc, ret>>

\* the channel is closed: the loop ends, emit.Close() runs, runPipeline returns nil
Return_nil ==
    /\ pc = "loop" /\ rpc = "closed"
    /\ pc' = "done"
    /\ ret' = "nil"
    /\ UNCHANGED <<rvars, call, cfg, input, tooLong, rpc, lineNumber, sending, lineCount,
                   errorCount, output, failed, trace>>

PipelineNext ==
    \/ Setup
    \/ ReaderScan
    \/ \E writeFails \in BOOLEAN : ProcessLine(writeFails)
    \/ Return_nil

PipelineSpec == PipelineInit /\ [][PipelineNext]_vars

\* the Configs and the inputs of the runs checked for termination
FairConfigs ==
    {c \in Configs : /\ c.Format \in {<<>>, F_bogus}
                     /\ c.Pattern = ""
                     /\ ~c.Adaptive
                     /\ Len(c.Fields) = 0}

FairLines == {L_blank, L_json}

\* the goroutine of Lines and the loop are scheduled: whenever one of them can
\* take a step, a step is taken (the consumer keeps receiving)
PipelineFairInit ==
    /\ PipelineInit
    /\ cfg \in FairConfigs
    /\ \A k \in 1..Len(input) : input[k] \in FairLines

PipelineFairSpec ==
    /\ PipelineFairInit
    /\ [][PipelineNext]_vars
    /\ WF_vars(PipelineNext)

(***************************************************************************)
(* Properties of the Registry                                              *)
(***************************************************************************)
\* the last call was r.Parse(line) with a line that is not empty or blank
ParsedNonEmpty == call.op = "Registry.Parse" /\ TrimSpace(call.line) # <<>>

\* a recognizer named name is registered (letter case ignored)
Registered(name) ==
    \E k \in 1..Len(parsers) : ToLower(Name(parsers[k])) = ToLower(name)

\* the registered recognizer a forced format name stands for
ForcedParser ==
    parsers[CHOOSE k \in 1..Len(parsers) :
                /\ ToLower(Name(parsers[k])) = forcedFormat
                /\ \A j \in 1..(k - 1) : ToLower(Name(parsers[j])) # forcedFormat]

\* C1: strict mode, no forced format: once a recognizer is cached, a non-empty
\* line is handed to the cached recognizer's Parse and to nothing else (no
\* CanParse, no detection), and Parse returns what that recognizer returns; a
\* syslog line after a JSON line comes back with the JSON decoding error and no
\* syslog field.
C1_StrictCacheUsedAlone ==
    (ParsedNonEmpty /\ forcedFormat = <<>> /\ ~adaptive /\ call.cachedBefore # NoParser)
    => /\ call.calls = <<Called("Parse", call.cachedBefore)>>
       /\ call.entry = CallParse(call.cachedBefore, call.line).entry
       /\ call.err = CallParse(call.cachedBefore, call.line).err
       /\ cached = call.cachedBefore
       /\ (call.cachedBefore = ParserOf("json") /\ call.line = L_syslog)
          => /\ call.entry.ParseError = "json.SyntaxError"
             /\ K_host \notin DOMAIN call.entry.Fields

C1_Witness ==
    /\ ParsedNonEmpty /\ forcedFormat = <<>> /\ ~adaptive
    /\ call.cachedBefore = ParserOf("json")
    /\ call.line = L_syslog
    /\ call.calls = <<Called("Parse", ParserOf("json"))>>
    /\ call.entry.ParseError = "json.SyntaxError"

\* C2: adaptive mode, no forced format: the cache stays empty, and Parse(line)
\* returns what Parse(line) returns on a Registry that was just constructed,
\* whatever was parsed or registered before; a JSON line and a syslog line are
\* each parsed by their own recognizer without a ParseError.
C2_AdaptiveIndependent ==
    (adaptive /\ forcedFormat = <<>>)
    => /\ cached = NoParser
       /\ call.op = "Registry.Parse"
          => /\ call.entry = RegistryParse(NewRegistry(TRUE, <<>>), call.line).entry
             /\ call.err = RegistryParse(NewRegistry(TRUE, <<>>), call.line).err
             /\ call.line = L_json
                => /\ call.entry.ParseError = "nil"
                   /\ call.calls[Len(call.calls)] = Called("Parse", ParserOf("json"))
             /\ call.line = L_syslog
                => /\ call.entry.ParseError = "nil"
                   /\ call.calls[Len(call.calls)] = Called("Parse", ParserOf("syslog"))

C2_Witness ==
    /\ adaptive /\ forcedFormat = <<>> /\ Len(parsers) > 5
    /\ call.op = "Registry.Parse" /\ call.line = L_syslog
    /\ K_host \in DOMAIN call.entry.Fields
    /\ cached = NoParser

\* C3 (as amended): with a forced format name that is not registered, Parse
\* of every line that is not empty or blank returns the unknown-format error and
\* no entry.
C3_UnknownFormatNonEmpty ==
    (ParsedNonEmpty /\ forcedFormat # <<>> /\ ~Registered(forcedFormat))
    => /\ call.err = "unknown format"
       /\ call.entry = NoEntry
       /\ call.calls = <<>>

C3_Witness ==
    /\ ParsedNonEmpty /\ forcedFormat = F_bogus /\ call.line = L_json
    /\ call.err = "unknown format"

\* C3 (as stated): with a forced format name that is not registered, every
\* Parse returns the unknown-format error, empty and blank lines included.
C3_UnknownFormatEveryLine ==
    (call.op = "Registry.Parse" /\ forcedFormat # <<>> /\ ~Registered(forcedFormat))
    => call.err = "unknown format"

\* C4 (as stated): for an empty or blank line, in every configuration,
\* Registry.Parse returns an entry whose ParseError is ErrEmptyLine and whose
\* Fields hold message = "".
C4_EmptyLineMessage ==
    (call.op = "Registry.Parse" /\ TrimSpace(call.line) = <<>>)
    => /\ call.err = "nil"
       /\ call.entry.ParseError = ErrEmptyLine
       /\ K_message \in DOMAIN call.entry.Fields
       /\ call.entry.Fields[K_message] = StringVal(<<>>)

\* C5: with a registered forced format, a non-empty line is handed to that
\* recognizer's Parse and to nothing else (no CanParse on any recognizer),
\* whatever the adaptive flag, and the cache stays empty.
C5_ForcedFormatPrecedence ==
    (forcedFormat # <<>> /\ Registered(forcedFormat))
    => /\ cached = NoParser
       /\ ParsedNonEmpty
          => /\ call.calls = <<Called("Parse", ForcedParser)>>
             /\ call.entry = CallParse(ForcedParser, call.line).entry
             /\ call.err = CallParse(ForcedParser, call.line).err
             /\ call.cachedBefore = NoParser

C5_Witness ==
    /\ ParsedNonEmpty /\ adaptive /\ forcedFormat = N_json /\ call.line = L_syslog
    /\ call.calls = <<Called("Parse", ParserOf("json"))>>
    /\ call.entry.ParseError = "json.SyntaxError"
    /\ cached = NoParser

\* the last call was an auto-detection: a non-empty line, no forced format, and
\* no cached recognizer in use
Detected ==
    /\ ParsedNonEmpty /\ forcedFormat = <<>>
    /\ adaptive \/ call.cachedBefore = NoParser

\* recognizer k identifies the line and parses it without an error
Wins(k, line) ==
    /\ CallCanParse(parsers[k], line)
    /\ CallParse(parsers[k], line).err = "nil"
    /\ CallParse(parsers[k], line).entry.ParseError = "nil"

\* the calls the loop makes on recognizer k when it goes past it or stops at it
Tried(k, line) ==
    IF CallCanParse(parsers[k], line)
    THEN <<Called("CanParse", parsers[k]), Called("Parse", parsers[k])>>
    ELSE <<Called("CanParse", parsers[k])>>

RECURSIVE TriedUpTo(_, _)
TriedUpTo(k, line) == IF k = 0 THEN <<>> ELSE TriedUpTo(k - 1, line) \o Tried(k, line)

\* C6: auto-detection returns the Parse result of the first recognizer, in
\* registration order (json, kv, syslog, apache, generic, then the registered
\* ones), whose CanParse is true and whose Parse has no error; the recognizers
\* before it are each asked CanParse, and Parse when CanParse is true, and are
\* passed over; no recognizer after it is called.
C6_FirstMatchWins ==
    /\ \A k \in 1..5 : parsers[k] = <<ParserOf("json"), ParserOf("kv"), ParserOf("syslog"),
                                      ParserOf("apache"), ParserOf("generic")>>[k]
    /\ \A k \in 6..Len(parsers) : parsers[k].kind = "regex"
    /\ Detected
       => \A k \in 1..Len(parsers) :
            (Wins(k, call.line) /\ \A j \in 1..(k - 1) : ~Wins(j, call.line))
            => /\ call.entry = CallParse(parsers[k], call.line).entry
               /\ call.err = "nil"
               /\ call.calls = TriedUpTo(k, call.line)

\* JSON identifies {a=1 b=2} and fails to decode it; key=value comes next and wins
C6_Witness ==
    /\ Detected /\ call.line = L_jsonkv
    /\ call.calls = <<Called("CanParse", ParserOf("json")), Called("Parse", ParserOf("json")),
                      Called("CanParse", ParserOf("kv")), Called("Parse", ParserOf("kv"))>>
    /\ call.entry.ParseError = "nil"
    /\ K_raw \notin DOMAIN call.entry.Fields

\* C7: the cache is empty until the first auto-detection that succeeds in strict
\* mode, which sets it to the recognizer that succeeded; once set it is never
\* changed or cleared, neither by Parse (also when the cached recognizer fails
\* on the line) nor by Register.
C7_CacheSetOnce ==
    [][/\ cached # NoParser => cached' = cached
       /\ (cached = NoParser /\ cached' # NoParser)
          => /\ ~adaptive /\ forcedFormat = <<>>
             /\ call'.op = "Registry.Parse"
             /\ call'.entry.ParseError = "nil" /\ call'.err = "nil"
             /\ call'.calls[Len(call'.calls)] = Called("Parse", cached')
       /\ (cached = NoParser /\ ~adaptive /\ forcedFormat = <<>>
              /\ call'.op = "Registry.Parse" /\ TrimSpace(call'.line) # <<>>)
          => cached' # NoParser]_vars

\* JSON was cached, a recognizer was registered, the cached recognizer then
\* failed on a syslog line, and the cache is unchanged
C7_Witness ==
    /\ cached = ParserOf("json") /\ Len(parsers) > 5
    /\ call.op = "Registry.Parse" /\ call.line = L_syslog
    /\ call.cachedBefore = ParserOf("json")
    /\ call.entry.ParseError # "nil"

\* C10: every entry returned by Registry.Parse or by a recognizer's Parse, with
\* or without a ParseError, has Raw equal to the line as it was passed in.
C10_RawRetained ==
    (call.op \in {"Registry.Parse", "Parser.Parse"} /\ call.entry # NoEntry)
    => call.entry.Raw = call.line

\* a line with white space around it, returned by Registry.Parse with a ParseError
C10_Witness ==
    /\ call.op = "Registry.Parse" /\ call.line = L_blank
    /\ call.entry.ParseError = ErrEmptyLine
    /\ call.entry.Raw = L_blank

(***************************************************************************)
(* Properties of runPipeline                                               *)
(***************************************************************************)
\* C8 (as stated, the output accepting every write): with a Config that
\* runPipeline accepts and OmitEmpty off, an input of n lines read without a
\* read error gives exactly n records, one for each line and in the order of the
\* lines, and runPipeline returns nil.
C8_OneRecordPerLine ==
    (pc = "done" /\ ret = "nil" /\ ~cfg.OmitEmpty /\ tooLong = 0 /\ ~failed)
    => /\ Len(output) = Len(input)
       /\ Len(trace) = Len(input)
       /\ \A k \in 1..Len(trace) : trace[k] = [Number |-> k, what |-> "written"]

\* the names NewRegistry registers
BuiltinNames == {N_json, N_kv, N_syslog, N_apache, N_generic}

\* the Config names a format that is not registered, and no pattern
UnknownFormatGiven ==
    cfg.Format # <<>> /\ cfg.Pattern = "" /\ ToLower(cfg.Format) \notin BuiltinNames

\* C9 (as amended): runPipeline returns an error exactly when the Format is not
\* registered and no Pattern is given (unknown format) or the Pattern is not
\* accepted by NewRegexParser (invalid pattern), and then no line was read and
\* no record written; otherwise it returns nil, having received every line up
\* to the end of the input or to the line the scanner failed on, which is the
\* last one, whatever parse failures and output errors there were.
C9_AbortsOnlyBeforeReading ==
    /\ pc # "done" => ret = "none"
    /\ pc = "done"
       => /\ ret \in {"nil", "unknown format", "invalid pattern"}
          /\ ret = "unknown format" <=> UnknownFormatGiven
          /\ ret = "invalid pattern" <=> cfg.Pattern \in InvalidPatternTexts
          /\ ret # "nil"
             => /\ rpc = "idle" /\ lineNumber = 0 /\ lineCount = 0
                /\ output = <<>> /\ trace = <<>>
          /\ ret = "nil"
             => /\ lineCount = (IF tooLong = 0 THEN Len(input) ELSE tooLong)
                /\ Len(trace) = lineCount
                /\ \A k \in 1..Len(trace) :
                      /\ trace[k].Number = k
                      /\ trace[k].what = "read error" <=> k = tooLong

\* an unknown format with two lines waiting: nothing read, nothing written
C9_Witness ==
    /\ pc = "done" /\ ret = "unknown format" /\ cfg.Format = F_bogus
    /\ Len(input) = 2 /\ lineNumber = 0 /\ output = <<>>

\* C9 (as stated): runPipeline returns an error only for a Format that is not
\* registered (with no Pattern); in every other case it returns nil and has
\* received every line of the input.
C9_OnlyUnknownFormatAborts ==
    pc = "done"
    => /\ ret # "nil" <=> UnknownFormatGiven
       /\ ret = "nil"
          => \A k \in 1..Len(input) :
                \E n \in 1..Len(trace) : trace[n].Number = k /\ trace[n].what # "read error"

\* the Numbers of the Lines whose record was written, in order
RECURSIVE WrittenNumbers(_)
WrittenNumbers(n) ==
    IF n = 0 THEN <<>>
    ELSE IF trace[n].what = "written"
    THEN Append(WrittenNumbers(n - 1), trace[n].Number)
    ELSE WrittenNumbers(n - 1)

EmitCalled ==
    /\ trace # <<>>
    /\ trace[Len(trace)].what \notin {"read error", "parse error"}
    /\ call.op = "Registry.Parse" /\ call.err = "nil"

\* C12: on an output that accepts every write, Emit writes nothing and returns
\* nil for a Record with a parseError when OmitEmpty is on, and writes exactly
\* one JSON object for every other Record.
C12_OmitEmpty ==
    (EmitCalled /\ ~failed)
    => /\ trace[Len(trace)].what =
              IF cfg.OmitEmpty /\ call.entry.ParseError # "nil" THEN "skipped"
              ELSE "written"
       /\ Len(output) = Len(WrittenNumbers(Len(trace)))

\* the keys buildOutput adds to the object after the fields of the Record
MetadataKeys ==
    (IF cfg.AddLineNumber THEN {K_lineNumber} ELSE {})
    \cup (IF cfg.AddRaw THEN {K_rawField} ELSE {})
    \cup (IF call.entry.ParseError # "nil" THEN {K_parseError} ELSE {})

\* the iteration that ended last wrote a record under a Fields option
FilteredWritten ==
    /\ EmitCalled
    /\ trace[Len(trace)].what = "written"
    /\ Len(cfg.Fields) > 0

\* C13: under a non-empty Fields option, the keys of the written object other
\* than the metadata keys are exactly the listed names the field map of the
\* Record has, each with the value of the Record: a listed name the Record lacks
\* is not written, and a field of the Record that is not listed is not written.
C13_FieldFiltering ==
    FilteredWritten
    => \A k \in (DOMAIN output[Len(output)] \cup DOMAIN call.entry.Fields
                 \cup {cfg.Fields[i] : i \in 1..Len(cfg.Fields)}) \ MetadataKeys :
          /\ k \in DOMAIN output[Len(output)]
             <=> /\ k \in {cfg.Fields[i] : i \in 1..Len(cfg.Fields)}
                 /\ k \in DOMAIN call.entry.Fields
          /\ k \in DOMAIN output[Len(output)]
             => output[Len(output)][k] = call.entry.Fields[k]

\* a=NaN b=1 under Fields b,key: b is written, a is not, key is missing
C13_Witness ==
    /\ FilteredWritten
    /\ call.line = L_nan
    /\ cfg.Fields = <<F_b, K_key>>
    /\ F_b \in DOMAIN call.entry.Fields
    /\ \E k \in DOMAIN call.entry.Fields : k # F_b
    /\ K_key \notin DOMAIN call.entry.Fields
    /\ DOMAIN output[Len(output)] = {F_b, K_lineNumber}
    /\ output[Len(output)][F_b] = call.entry.Fields[F_b]

(***************************************************************************)
(* inferType on its own: calls with the text of an integer, the text of a  *)
(* boolean, and other texts.  call records the argument and the result.    *)
(***************************************************************************)
DigitChar(d) ==
    CASE d = 0 -> "0" [] d = 1 -> "1" [] d = 2 -> "2" [] d = 3 -> "3" [] d = 4 -> "4"
      [] d = 5 -> "5" [] d = 6 -> "6" [] d = 7 -> "7" [] d = 8 -> "8" [] d = 9 -> "9"

\* the decimal digits of n >= 0, without leading zeros
RECURSIVE FormatDigits(_)
FormatDigits(n) ==
    IF n < 10 THEN <<DigitChar(n)>>
    ELSE Append(FormatDigits(n \div 10), DigitChar(n % 10))

\* the text of an integer: strconv.FormatInt(v, 10)
FormatInt(v) == IF v < 0 THEN <<"-">> \o FormatDigits(-v) ELSE FormatDigits(v)

\* the text of a boolean: strconv.FormatBool(b)
FormatBool(b) == IF b THEN <<"t", "r", "u", "e">> ELSE <<"f", "a", "l", "s", "e">>

\* texts that are the text of no integer and of no boolean
OtherTexts ==
    {<<>>, <<"-">>, <<"+", "7">>, <<"0", "0", "7">>, <<"1", ".", "5">>, <<"1", "e", "3">>,
     <<"N", "a", "N">>, <<"T", "R", "U", "E">>, <<"F", "a", "l", "s", "e">>, <<"x", "1">>,
     <<"-", "0">>, <<"1", " ">>, FormatDigits(MaxInt64 + 1), <<"-">> \o FormatDigits(MaxInt64 + 2)}

\* an argument of inferType: the text s, which is the text of "of"
InferArg(s, from, of) == [op |-> "argument", s |-> s, from |-> from, of |-> of]

InferArgs ==
    {InferArg(FormatInt(v), "int64", v) : v \in MinInt64..MaxInt64}
    \cup {InferArg(FormatBool(b), "bool", b) : b \in BOOLEAN}
    \cup {InferArg(s, "string", s) : s \in OtherTexts}

InferInit ==
    /\ parsers = <<>>
    /\ cached = NoParser
    /\ adaptive = FALSE
    /\ forcedFormat = <<>>
    /\ call \in InferArgs
    /\ PipelineIdle

\* the call inferType(s)
InferCall ==
    /\ call.op = "argument"
    /\ call' = [op |-> "inferType", s |-> call.s, from |-> call.from, of |-> call.of,
                ret |-> inferType(call.s)]
    /\ UNCHANGED <<rvars, pvars>>

InferNext == InferCall

InferSpec == InferInit /\ [][InferNext]_vars

\* C14: inferType returns a value for every text: an int64, a float64, a bool or
\* the string itself; for the text of a signed 64-bit integer it returns that
\* integer as an int64, and for the text of a boolean that boolean as a bool.
C14_InferRoundTrip ==
    call.op = "inferType"
    => /\ call.ret.t \in {"int64", "float64", "bool", "string"}
       /\ call.ret.t = "string" => call.ret.v = call.s
       /\ call.from = "int64" => call.ret = [t |-> "int64", v |-> call.of]
       /\ call.from = "bool" => call.ret = [t |-> "bool", v |-> call.of]

\* the least integer of the width went through its text and came back
C14_Witness ==
    /\ call.op = "inferType"
    /\ call.from = "int64"
    /\ call.of = -(2 ^ (Int64Bits - 1))
    /\ call.s[1] = "-" /\ Len(call.s) > 1
    /\ call.ret = [t |-> "int64", v |-> call.of]

\* C15: when the Pattern given does not compile or has no named group, no
\* RegexParser is made and runPipeline returns "invalid pattern" having read no
\* line; when it compiles and names a group, runPipeline does not return that
\* error and no call of Parse reports an error of the pattern: the call error is
\* nil and the parseError is nil, no-match or empty-line.
C15_InvalidPattern ==
    /\ (pc # "start" /\ cfg.Pattern \in InvalidPatternTexts)
       => /\ pc = "done" /\ ret = "invalid pattern"
          /\ \A k \in 1..Len(parsers) : parsers[k].kind # "regex"
          /\ rpc = "idle" /\ lineNumber = 0 /\ lineCount = 0
          /\ trace = <<>> /\ output = <<>> /\ call.op = "none"
    /\ (pc # "start" /\ cfg.Pattern \in ValidPatternTexts)
       => /\ ret # "invalid pattern"
          /\ \E k \in 1..Len(parsers) :
                parsers[k] = [kind |-> "regex", patternText |-> cfg.Pattern]
          /\ call.op = "Registry.Parse"
             => /\ call.err = "nil"
                /\ call.entry.ParseError \in {"nil", ErrNoMatch, ErrEmptyLine}

\* a pattern without a named group, lines to read, and none was read
C15_Witness ==
    /\ pc = "done"
    /\ cfg.Pattern = "\\d+"
    /\ Len(input) = MaxInput
    /\ ret = "invalid pattern"
    /\ lineNumber = 0 /\ trace = <<>>

(***************************************************************************)
(* A recognizer on its own: one call of CanParse and of Parse on a line.   *)
(* call records the recognizer, the line and what the two calls returned.  *)
(***************************************************************************)
RecognizerInit ==
    /\ parsers = <<>>
    /\ cached = NoParser
    /\ adaptive = FALSE
    /\ forcedFormat = <<>>
    /\ call \in {[op |-> "argument", parser |-> p, line |-> line] :
                    p \in AllParsers, line \in AllLines}
    /\ PipelineIdle

\* p.CanParse(line), then p.Parse(line)
RecognizerCall ==
    /\ call.op = "argument"
    /\ call' = [op |-> "Parser.Parse", parser |-> call.parser, line |-> call.line,
                can |-> CallCanParse(call.parser, call.line),
                entry |-> CallParse(call.parser, call.line).entry,
                err |-> CallParse(call.parser, call.line).err]
    /\ UNCHANGED <<rvars, pvars>>

RecognizerNext == RecognizerCall

RecognizerSpec == RecognizerInit /\ [][RecognizerNext]_vars

\* the last call was Parse of a recognizer of this kind
ParseOf(kind) == call.op = "Parser.Parse" /\ call.parser.kind = kind

\* what the pattern of the RegexParser called matches in the line
RegexMatches == FindStringSubmatch(Compile(call.parser.patternText).pat, call.line)

\* the names of the groups of the pattern of the RegexParser called
RegexNames == Compile(call.parser.patternText).pat.names

\* C16 as amended: when the pattern matches, the fields of the Record are
\* exactly the named groups of the pattern, each with inferType of the text the
\* group captured; a named group that matched the empty string or took no part
\* in the match is present, with the empty string as its value.
C16_EveryNamedGroup ==
    (ParseOf("regex") /\ RegexMatches.found)
    => /\ call.err = "nil" /\ call.entry.ParseError = "nil"
       /\ DOMAIN call.entry.Fields
             = {RegexNames[i] : i \in 1..Len(RegexNames)} \ {<<>>}
       /\ \A i \in 1..Len(RegexNames) :
             RegexNames[i] # <<>>
             => /\ call.entry.Fields[RegexNames[i]] = inferType(RegexMatches.caps[i])
                /\ RegexMatches.caps[i] = <<>>
                   => call.entry.Fields[RegexNames[i]] = [t |-> "string", v |-> <<>>]

\* the optional group took no part in the match of "k:", and val is a field
C16_Witness ==
    /\ ParseOf("regex")
    /\ call.parser.patternText = OptionalGroupText
    /\ call.line = L_colon
    /\ RegexMatches.found
    /\ RegexMatches.caps[3] = <<>>
    /\ call.entry.Fields[K_val] = [t |-> "string", v |-> <<>>]
    /\ call.entry.Fields[K_key] = [t |-> "string", v |-> <<"k">>]

\* C16 as stated: when the pattern matches, the fields of the Record are exactly
\* the named groups that captured a non-empty text, each with inferType of it; a
\* named group that captured the empty string or took no part is absent.
C16_NonEmptyGroupsOnly ==
    (ParseOf("regex") /\ RegexMatches.found)
    => /\ DOMAIN call.entry.Fields
             = {RegexNames[i] : i \in {j \in 1..Len(RegexNames) :
                                          RegexMatches.caps[j] # <<>>}} \ {<<>>}
       /\ \A i \in 1..Len(RegexNames) :
             (RegexNames[i] # <<>> /\ RegexMatches.caps[i] # <<>>)
             => call.entry.Fields[RegexNames[i]] = inferType(RegexMatches.caps[i])

\* what the Apache pattern matches in the line of the call
ApacheMatches == FindStringSubmatch(ApachePattern, call.line)

\* the Apache recognizer parsed a line its pattern matches
ApacheMatched == ParseOf("apache") /\ ApacheMatches.found

\* no field holds "-": a group that captured "-" or nothing is absent
NoDashField ==
    /\ \A k \in DOMAIN call.entry.Fields : call.entry.Fields[k] # [t |-> "string", v |-> <<"-">>]
    /\ \A i \in 1..Len(ApachePattern.names) :
          ApacheMatches.caps[i] \in {<<>>, <<"-">>}
          => ApachePattern.names[i] \notin DOMAIN call.entry.Fields

\* C17 as amended: for a line the Apache pattern matches, status is in the
\* Record, as an integer when its digits are in the range of int and as the
\* captured text otherwise; size is in the Record unless its capture is "-", as
\* an integer when the capture is a decimal integer of 64 bits and as the
\* captured text otherwise; no field holds "-".
C17_ApacheNumbers ==
    ApacheMatched
    => /\ call.err = "nil" /\ call.entry.ParseError = "nil"
       /\ K_status \in DOMAIN call.entry.Fields
       /\ call.entry.Fields[K_status] =
             IF DigitsValue(ApacheMatches.caps[8], 0, MaxInt64) <= MaxInt64
             THEN [t |-> "int", v |-> DigitsValue(ApacheMatches.caps[8], 0, MaxInt64)]
             ELSE [t |-> "string", v |-> ApacheMatches.caps[8]]
       /\ K_size \in DOMAIN call.entry.Fields <=> ApacheMatches.caps[9] # <<"-">>
       /\ K_size \in DOMAIN call.entry.Fields
          => call.entry.Fields[K_size] =
                IF ParseInt(ApacheMatches.caps[9]).ok
                THEN [t |-> "int64", v |-> ParseInt(ApacheMatches.caps[9]).val]
                ELSE [t |-> "string", v |-> ApacheMatches.caps[9]]
       /\ NoDashField

\* a line whose size and referer are "-": status 200, no size, no referer
C17_Witness ==
    /\ ApacheMatched
    /\ call.line = L_apache_dash
    /\ call.entry.Fields[K_status] = [t |-> "int", v |-> 200]
    /\ K_size \notin DOMAIN call.entry.Fields
    /\ K_referer \notin DOMAIN call.entry.Fields
    /\ call.entry.Fields[K_useragent] = [t |-> "string", v |-> <<"u">>]

\* C17 as stated: for every line the Apache pattern matches, the Record has
\* status and size as integers, and no field holds "-".
C17_StatusAndSizeIntegers ==
    ApacheMatched
    => /\ K_status \in DOMAIN call.entry.Fields
       /\ call.entry.Fields[K_status].t = "int"
       /\ K_size \in DOMAIN call.entry.Fields
       /\ call.entry.Fields[K_size].t = "int64"
       /\ NoDashField

\* what the syslog pattern matches in the line of the call
SyslogMatches == FindStringSubmatch(SyslogPattern, call.line)

\* C18: for a line the syslog pattern matches without a [pid] part, the Record of
\* the Syslog recognizer has no pid key, and has timestamp, host and program
\* with the texts the line holds.
C18_NoPidKey ==
    (ParseOf("syslog") /\ SyslogMatches.found /\ SyslogMatches.caps[4] = <<>>)
    => /\ call.err = "nil" /\ call.entry.ParseError = "nil"
       /\ K_pid \notin DOMAIN call.entry.Fields
       /\ {K_timestamp, K_host, K_program} \subseteq DOMAIN call.entry.Fields
       /\ call.entry.Fields[K_timestamp] = [t |-> "string", v |-> SyslogMatches.caps[1]]
       /\ call.entry.Fields[K_host] = [t |-> "string", v |-> SyslogMatches.caps[2]]
       /\ call.entry.Fields[K_program] = [t |-> "string", v |-> SyslogMatches.caps[3]]

\* "Jan 5 10:30:45 h sshd: ok" was parsed: program sshd, no pid
C18_Witness ==
    /\ ParseOf("syslog")
    /\ call.line = L_syslog_nopid
    /\ SyslogMatches.found /\ SyslogMatches.caps[4] = <<>>
    /\ call.entry.Fields[K_program] = [t |-> "string", v |-> <<"s", "s", "h", "d">>]
    /\ call.entry.Fields[K_host] = [t |-> "string", v |-> <<"h">>]
    /\ DOMAIN call.entry.Fields = {K_timestamp, K_host, K_program, K_message}

\* one of the patterns of the generic recognizer matches the line of the call
GenericHeuristic ==
    \E k \in 1..Len(GenericPatterns) : FindStringSubmatch(GenericPatterns[k], call.line).found

\* C19: the generic recognizer accepts every line; for a line with a character
\* that is not white space Parse returns no parseError and a message that is not
\* empty, the trimmed line when none of its patterns matches; for an empty or
\* blank line, and only for one, it returns the empty-line failure with the
\* message "".
C19_GenericNeverFails ==
    ParseOf("generic")
    => /\ call.can
       /\ call.err = "nil"
       /\ K_message \in DOMAIN call.entry.Fields
       /\ IF \E i \in 1..Len(call.line) : call.line[i] \notin SpaceChar
          THEN /\ call.entry.ParseError = "nil"
               /\ call.entry.Fields[K_message].t = "string"
               /\ call.entry.Fields[K_message].v # <<>>
               /\ ~GenericHeuristic
                  => call.entry.Fields = (K_message :> [t |-> "string", v |-> TrimSpace(call.line)])
          ELSE /\ call.entry.ParseError = ErrEmptyLine
               /\ call.entry.Fields = (K_message :> [t |-> "string", v |-> <<>>])

\* " hello " matches no pattern: the message is "hello"
C19_Witness ==
    /\ ParseOf("generic")
    /\ call.line = L_plain
    /\ ~GenericHeuristic
    /\ call.can
    /\ call.entry.ParseError = "nil"
    /\ call.entry.Fields[K_message] = [t |-> "string", v |-> <<"h", "e", "l", "l", "o">>]

\* C20: Parse of the JSON recognizer never returns a call error; when
\* json.Unmarshal cannot decode the line into the field map, the Record carries
\* the error of the decoder as its parseError, and its fields are raw, the line,
\* and _parseError, the text of that error; when it can, there is no parseError.
C20_DecodeFailureInRecord ==
    ParseOf("json")
    => /\ call.err = "nil"
       /\ call.entry.Raw = call.line
       /\ IF Unmarshal(call.line).err # "nil"
          THEN /\ call.entry.ParseError \in {"json.SyntaxError", "json.UnmarshalTypeError"}
               /\ call.entry.ParseError = Unmarshal(call.line).err
               /\ call.entry.Fields =
                     (K_raw :> [t |-> "string", v |-> call.line]
                      @@ K_parseError :> [t |-> "string", v |-> <<call.entry.ParseError>>])
          ELSE call.entry.ParseError = "nil"

\* "[1]" is JSON but not an object: the type error is in the Record
C20_Witness ==
    /\ ParseOf("json")
    /\ call.line = L_array
    /\ call.err = "nil"
    /\ call.entry.ParseError = "json.UnmarshalTypeError"
    /\ call.entry.Fields[K_raw] = [t |-> "string", v |-> L_array]
    /\ K_parseError \in DOMAIN call.entry.Fields

(***************************************************************************)
(* Further properties of the Registry                                      *)
(***************************************************************************)
\* C21: an auto-detection (no forced format; adaptive mode, or strict mode with
\* nothing cached) of a line that is not empty or blank returns a Record, a nil
\* call error and no parseError; when none of the recognizers before generic
\* identifies the line and parses it without an error, what is returned is what
\* the generic recognizer's Parse returns, called last.
C21_DetectionSucceeds ==
    Detected
    => /\ call.err = "nil"
       /\ call.entry # NoEntry
       /\ call.entry.ParseError = "nil"
       /\ (\A k \in 1..4 : ~Wins(k, call.line))
          => /\ call.entry = CallParse(ParserOf("generic"), call.line).entry
             /\ call.calls # <<>>
             /\ call.calls[Len(call.calls)] = Called("Parse", ParserOf("generic"))

\* {oops}: JSON identifies it and fails to decode it, the next three do not
\* identify it, and generic returns it as the message
C21_Witness ==
    /\ Detected /\ call.line = L_broken
    /\ \A k \in 1..4 : ~Wins(k, call.line)
    /\ Called("Parse", ParserOf("json")) \in {call.calls[i] : i \in 1..Len(call.calls)}
    /\ call.entry.ParseError = "nil"
    /\ call.entry.Fields = (K_message :> [t |-> "string", v |-> L_broken])

(***************************************************************************)
(* Two callers in Registry.Parse at once on one Registry, no lock taken.   *)
(* r.cached is an interface value of two words, the dynamic type and the   *)
(* pointer to the recognizer: cached is [type, data], each the kind of the *)
(* recognizer the word was written for, "nil" when unset.  A step of a     *)
(* caller reads or writes one word.  call holds the two calls in progress  *)
(* and the log of the words written.  The lines are not blank and no       *)
(* format is forced.                                                       *)
(***************************************************************************)
Callers == {1, 2}

RaceLines == {L_json, L_kv, L_plain}

Words == {"type", "data"}

\* a call of Parse that has not started
NewCaller(line) ==
    [pc |-> "check", line |-> line, seen |-> "nil", need |-> {},
     got |-> [type |-> "nil", data |-> "nil"], found |-> "nil",
     ret |-> Return(NoEntry, "nil")]

RaceInit ==
    /\ parsers = NewRegistry(FALSE, <<>>).parsers
    /\ cached = [type |-> "nil", data |-> "nil"]
    /\ adaptive \in BOOLEAN
    /\ forcedFormat = <<>>
    /\ \E l1 \in RaceLines, l2 \in RaceLines :
          call = [op |-> "concurrent", th |-> <<NewCaller(l1), NewCaller(l2)>>, log |-> <<>>]
    /\ PipelineIdle

\* caller t moves on to state s
Moves(t, s) == call' = [call EXCEPT !.th[t] = s]

\* the Registry as a caller sees it when it has read type word seen
RegistrySeen(seen) ==
    [parsers |-> parsers, cached |-> ParserOf(seen), adaptive |-> adaptive,
     forcedFormat |-> forcedFormat]

\* "if !r.adaptive && r.cached != nil": the type word is read (not at all in
\* adaptive mode); to call r.cached.Parse the build reads the interface again,
\* or keeps the type word it has and reads the data word only
Check(t, reload) ==
    LET c == call.th[t]
        seen == IF adaptive THEN "nil" ELSE cached.type
    IN  /\ c.pc = "check"
        /\ Moves(t, IF UseCached(RegistrySeen(seen))
                    THEN [c EXCEPT !.pc = "load", !.seen = seen, !.got.type = seen,
                                   !.need = IF reload THEN Words ELSE {"data"}]
                    ELSE [c EXCEPT !.pc = "detect", !.seen = seen])
        /\ UNCHANGED <<rvars, pvars>>

\* one word of r.cached is read for the call r.cached.Parse(line)
Load(t, w) ==
    LET c == call.th[t]
    IN  /\ c.pc = "load" /\ w \in c.need
        /\ Moves(t, [c EXCEPT !.need = c.need \ {w}, !.got[w] = cached[w]])
        /\ UNCHANGED <<rvars, pvars>>

\* "return r.cached.Parse(line)" on the words read: the method of the type word
\* runs on the pointer of the data word; on a pointer of another recognizer, or
\* on nil, the behaviour is undefined
CallLoaded(t) ==
    LET c == call.th[t]
    IN  /\ c.pc = "load" /\ c.need = {}
        /\ Moves(t, [c EXCEPT !.pc = "return",
                              !.ret = IF c.got.type = c.got.data
                                      THEN CallParse(ParserOf(c.got.type), c.line)
                                      ELSE Return(NoEntry, "undefined behaviour")])
        /\ UNCHANGED <<rvars, pvars>>

\* the loop of the auto-detection, up to the recognizer that succeeds
DetectFound(t, c, d) ==
    Moves(t, [c EXCEPT !.pc = IF adaptive THEN "return" ELSE "recheck",
                       !.found = d.parser.kind, !.ret = d.ret])

Detect(t) ==
    /\ call.th[t].pc = "detect"
    /\ DetectFound(t, call.th[t], AutoDetect(Registry, call.th[t].line, 1, <<>>))
    /\ UNCHANGED <<rvars, pvars>>

\* "if !r.adaptive && r.cached == nil": the type word is read again
Recheck(t) ==
    LET c == call.th[t]
    IN  /\ c.pc = "recheck"
        /\ Moves(t, [c EXCEPT !.pc = "decide", !.seen = cached.type])
        /\ UNCHANGED <<rvars, pvars>>

\* the branch, were it taken on what the cache holds at the time of the write
EmptyNow(seen, now) == now = "nil"

\* the branch is taken on the word the caller read
EmptyWhenRead(seen, now) == seen = "nil"

\* the branch of "if !r.adaptive && r.cached == nil"
Decide(t) ==
    LET c == call.th[t]
    IN  /\ c.pc = "decide"
        /\ Moves(t, IF EmptyWhenRead(c.seen, cached.type)
                    THEN [c EXCEPT !.pc = "write", !.need = Words]
                    ELSE [c EXCEPT !.pc = "return"])
        /\ UNCHANGED <<rvars, pvars>>

\* "r.cached = p": one word is written
WriteWord(t, w) ==
    LET c == call.th[t]
    IN  /\ c.pc = "write" /\ w \in c.need
        /\ cached' = [cached EXCEPT ![w] = c.found]
        /\ call' = [call EXCEPT
                       !.th[t] = [c EXCEPT !.need = c.need \ {w},
                                           !.pc = IF c.need = {w} THEN "return" ELSE "write"],
                       !.log = Append(call.log, [by |-> t, word |-> w, val |-> c.found])]
        /\ UNCHANGED <<parsers, adaptive, forcedFormat, pvars>>

RaceNext ==
    \E t \in Callers :
        \/ \E reload \in BOOLEAN : Check(t, reload)
        \/ \E w \in Words : Load(t, w)
        \/ CallLoaded(t)
        \/ Detect(t)
        \/ Recheck(t)
        \/ Decide(t)
        \/ \E w \in Words : WriteWord(t, w)

RaceSpec == RaceInit /\ [][RaceNext]_vars

\* the value of the last write of word w in the log, "nil" when there is none
RECURSIVE LastWritten(_, _)
LastWritten(w, n) ==
    IF n = 0 THEN "nil"
    ELSE IF call.log[n].word = w THEN call.log[n].val
    ELSE LastWritten(w, n - 1)

\* caller t has written word w
Wrote(t, w) ==
    \E n \in 1..Len(call.log) :
        call.log[n] = [by |-> t, word |-> w, val |-> call.th[t].found]

\* word w of the cache was written, and later written again with another value
Overwritten(w) ==
    \E m \in 1..Len(call.log), n \in 1..Len(call.log) :
        /\ m < n
        /\ call.log[m].word = w /\ call.log[n].word = w
        /\ call.log[m].val # call.log[n].val

\* C22: the check that the cache is empty and the write to it are separate
\* steps, with no lock between them: in strict mode a caller that read the cache
\* as empty after its detection writes its recognizer whatever the cache holds
\* by then, so that each word of the cache holds what was written to it last;
\* a caller that read it as set writes nothing; in adaptive mode the cache is
\* not touched.  Every caller that detects gets the Record of the recognizer
\* detected for its own line.
C22_CheckThenWrite ==
    call.op = "concurrent"
    => /\ \A w \in Words : cached[w] = LastWritten(w, Len(call.log))
       /\ adaptive => call.log = <<>>
       /\ \A t \in Callers :
             /\ (call.th[t].pc = "return" /\ call.th[t].found # "nil" /\ ~adaptive)
                => IF call.th[t].seen = "nil"
                   THEN \A w \in Words : Wrote(t, w)
                   ELSE \A n \in 1..Len(call.log) : call.log[n].by # t
             /\ call.th[t].found # "nil"
                => /\ call.th[t].ret.err = "nil"
                   /\ call.th[t].ret.entry
                         = CallParse(ParserOf(call.th[t].found), call.th[t].line).entry

\* both callers have returned; caller 1 set the cache to json, caller 2 then
\* wrote keyvalue over it
C22_Witness ==
    /\ call.op = "concurrent" /\ ~adaptive
    /\ \A t \in Callers : call.th[t].pc = "return"
    /\ call.th[1].line = L_json /\ call.th[2].line = L_kv
    /\ call.log = <<[by |-> 1, word |-> "type", val |-> "json"],
                    [by |-> 1, word |-> "data", val |-> "json"],
                    [by |-> 2, word |-> "type", val |-> "kv"],
                    [by |-> 2, word |-> "data", val |-> "kv"]>>
    /\ Overwritten("type")
    /\ cached = [type |-> "kv", data |-> "json"] \/ cached = [type |-> "kv", data |-> "kv"]

(***************************************************************************)
(* Further properties of the pipeline                                      *)
(***************************************************************************)
\* runPipeline has returned nil: the loop over Lines has ended
LoopEnded == pc = "done" /\ ret = "nil"

\* the goroutine delivered every line of the input, and nothing else
EveryLineDelivered ==
    /\ Len(trace) = Len(input)
    /\ \A k \in 1..Len(trace) : trace[k].Number = k /\ trace[k].what # "read error"

\* the goroutine delivered the lines before the one the scanner fails on, then
\* the error
DeliveredUpToError ==
    /\ Len(trace) = tooLong
    /\ \A k \in 1..Len(trace) :
          /\ trace[k].Number = k
          /\ trace[k].what = "read error" <=> k = tooLong

\* C23 as amended: with the goroutine and the loop scheduled, runPipeline
\* returns; when it returns nil the channel is closed and the loop has processed
\* every item delivered: every line of the input, or, when the scanner fails on
\* a line, the lines before it and one error item.
C23_ReaderTerminates ==
    /\ <>(pc = "done")
    /\ [](LoopEnded
          => /\ rpc = "closed"
             /\ lineCount = Len(trace)
             /\ IF tooLong = 0 THEN EveryLineDelivered ELSE DeliveredUpToError)

\* an input of the most lines was read to its end and runPipeline returned
C23_Witness ==
    /\ LoopEnded
    /\ Len(input) = MaxInput /\ tooLong = 0
    /\ rpc = "closed"
    /\ lineCount = MaxInput
    /\ EveryLineDelivered

\* C23 as stated: when runPipeline returns after the loop, the goroutine has
\* delivered every line of the input.
C23_DeliversEveryLine == LoopEnded => (rpc = "closed" /\ EveryLineDelivered)

\* C24: an Emit that returns nil has written nothing only for a Record it omits
\* (OmitEmpty and a parseError); otherwise its record is in the output when the
\* iteration ends, so that before the next line is handed to Registry.Parse the
\* output holds one record for each line written so far, in the order of the
\* lines: with AddRaw, record j is the record of the j-th line written.
C24_FlushedInOrder ==
    /\ Len(output) = Len(WrittenNumbers(Len(trace)))
    /\ \A k \in 1..Len(trace) :
          trace[k].what = "skipped"
          => cfg.OmitEmpty /\ (k = Len(trace) => call.entry.ParseError # "nil")
    /\ cfg.AddRaw
       => \A j \in 1..Len(output) :
             output[j][K_rawField]
                = [t |-> "string", v |-> input[WrittenNumbers(Len(trace))[j]]]

\* the second line is about to be parsed and the record of the first is in the
\* output
C24_Witness ==
    /\ pc = "loop" /\ rpc = "send"
    /\ sending.Number = 2 /\ sending.Err = "nil"
    /\ cfg.AddRaw
    /\ trace = <<[Number |-> 1, what |-> "written"]>>
    /\ Len(output) = 1
    /\ output[1][K_rawField] = [t |-> "string", v |-> input[1]]

\* the number of the items the loop counted as errors among the first n
RECURSIVE ErrorsIn(_)
ErrorsIn(n) ==
    IF n = 0 THEN 0
    ELSE ErrorsIn(n - 1)
         + (IF trace[n].what \in {"read error", "parse error", "output error"} THEN 1 ELSE 0)

\* C25: when the scanner fails on a line, the goroutine has delivered the lines
\* before it, then sends one item with Err set, no text, and Number one more
\* than the number of lines delivered, and closes the channel: the error item is
\* the last item and no line after the failing one is delivered.  The loop
\* counts the item as one line and one error and writes no record for it.
C25_TerminalReadError ==
    /\ [](/\ (rpc = "send" /\ sending.Err # "nil")
             => /\ tooLong > 0 /\ sending.Number = tooLong
                /\ sending.Number = lineNumber + 1
                /\ sending.Number = Len(trace) + 1
                /\ \A k \in 1..Len(trace) : trace[k].what # "read error"
          /\ \A k \in 1..Len(trace) :
                trace[k].what = "read error"
                => /\ k = Len(trace) /\ k = tooLong /\ trace[k].Number = k
                   /\ rpc = "closed"
          /\ tooLong > 0 => (Len(trace) <= tooLong /\ lineNumber < tooLong)
          /\ lineCount = Len(trace)
          /\ errorCount = ErrorsIn(Len(trace)))
    /\ [][(rpc = "send" /\ sending.Err # "nil")
          => /\ lineCount' = lineCount + 1
             /\ errorCount' = errorCount + 1
             /\ output' = output
             /\ rpc' = "closed"]_vars

\* the second line is too long: one line was processed, then the error item,
\* counted as a line and an error, and the channel is closed
C25_Witness ==
    /\ Len(input) = 2 /\ tooLong = 2
    /\ input[1] = L_json
    /\ rpc = "closed"
    /\ trace = <<[Number |-> 1, what |-> "written"], [Number |-> 2, what |-> "read error"]>>
    /\ lineCount = 2 /\ errorCount = 1
    /\ Len(output) = 1

\* runPipeline was given a pattern NewRegexParser accepts, and is past its setup
PatternGiven == pc # "start" /\ cfg.Pattern \in ValidPatternTexts

\* the RegexParser of the pattern given
PatternParser == [kind |-> "regex", patternText |-> cfg.Pattern]

\* C26: with a pattern given, the registry of the loop is a new one, forced to
\* regex, strict, with the RegexParser registered after the built-in
\* recognizers, whatever Format and Adaptive are; an unregistered Format gives
\* no unknown-format error; every line that is not empty or blank is handed to
\* the RegexParser alone, and when the pattern does not match it the Record has
\* the no-match parseError and the field raw, with a nil call error.
C26_PatternOverrides ==
    PatternGiven
    => /\ ret \in {"none", "nil"}
       /\ forcedFormat = N_regex /\ ~adaptive /\ cached = NoParser
       /\ parsers = NewRegistry(FALSE, <<>>).parsers \o <<PatternParser>>
       /\ (call.op = "Registry.Parse" /\ TrimSpace(call.line) # <<>>)
          => /\ call.err = "nil"
             /\ call.calls = <<Called("Parse", PatternParser)>>
             /\ IF MatchString(Compile(cfg.Pattern).pat, call.line)
                THEN call.entry.ParseError = "nil"
                ELSE /\ call.entry.ParseError = ErrNoMatch
                     /\ call.entry.Fields = (K_raw :> [t |-> "string", v |-> call.line])

\* an unregistered Format, Adaptive on, and a JSON line the pattern does not
\* match: a no-match record was written
C26_Witness ==
    /\ PatternGiven
    /\ cfg.Format = F_bogus /\ cfg.Adaptive
    /\ call.op = "Registry.Parse" /\ call.line = L_json
    /\ call.entry.ParseError = ErrNoMatch
    /\ K_raw \in DOMAIN call.entry.Fields
    /\ trace # <<>> /\ trace[Len(trace)].what = "written"
    /\ K_raw \in DOMAIN output[Len(output)]

CalledKinds == {call.calls[i].kind : i \in 1..Len(call.calls)}

\* C28: a recognizer added with Register sits behind Generic in the order;
\* with no forced format no call of Parse on a non-empty line calls it, in
\* strict or in adaptive mode, and it is never the cached recognizer; with
\* the forced format naming it, a non-empty line is handed to its Parse.
C28_RegisteredBehindGeneric ==
    /\ parsers[5] = ParserOf("generic")
    /\ \A k \in 1..Len(parsers) : parsers[k].kind = "regex" => k > 5
    /\ cached = NoParser \/ cached.kind # "regex"
    /\ (ParsedNonEmpty /\ forcedFormat = <<>>) => "regex" \notin CalledKinds
    /\ (ParsedNonEmpty /\ "regex" \in CalledKinds)
       => /\ forcedFormat = N_regex
          /\ call.calls = <<Called("Parse", parsers[6])>>

\* auto-detection of a line a registered recognizer identifies: Generic took it
C28_Witness ==
    /\ Detected /\ Len(parsers) > 5
    /\ CallCanParse(parsers[6], call.line)
    /\ CallParse(parsers[6], call.line).entry.ParseError = "nil"
    /\ \A k \in 1..4 : ~Wins(k, call.line)
    /\ call.calls[Len(call.calls)] = Called("Parse", ParserOf("generic"))
    /\ ~adaptive => cached = ParserOf("generic")

\* C29: Parse of an empty or blank line calls no recognizer and leaves the
\* recognizers, the mode, the forced format and the cache of the Registry as
\* they were, whether the cache is still empty or already set.
C29_EmptyLineFrame ==
    [][(call'.op = "Registry.Parse" /\ TrimSpace(call'.line) = <<>>)
       => /\ call'.calls = <<>>
          /\ cached' = cached
          /\ parsers' = parsers
          /\ adaptive' = adaptive
          /\ forcedFormat' = forcedFormat]_vars

\* a blank line parsed in strict mode, before any recognizer is cached
C29_Witness ==
    /\ ~adaptive /\ forcedFormat = <<>>
    /\ call.op = "Registry.Parse" /\ call.line = L_blank
    /\ call.entry.ParseError = ErrEmptyLine
    /\ call.cachedBefore = NoParser /\ cached = NoParser

\* C30: Registry.Parse returns an entry and a nil error, or no entry and the
\* unknown-format error, and nothing else; with no forced format, or with a
\* forced format that is registered, the error is nil and an entry is
\* returned for every line, after every sequence of calls.
C30_EntryOrError ==
    call.op = "Registry.Parse"
    => /\ \/ call.entry # NoEntry /\ call.err = "nil"
          \/ call.entry = NoEntry /\ call.err = "unknown format"
       /\ (forcedFormat = <<>> \/ Registered(forcedFormat))
          => call.entry # NoEntry /\ call.err = "nil"

\* the forced JSON recognizer failed on a syslog line: the failure is in the
\* entry and the call error is nil
C30_Witness ==
    /\ forcedFormat = N_json /\ Registered(forcedFormat)
    /\ call.op = "Registry.Parse" /\ call.line = L_syslog
    /\ call.entry # NoEntry /\ call.entry.ParseError # "nil"
    /\ call.err = "nil"

====
